---- MODULE Spec2Model ----
(***************************************************************************)
(* Model of the EmissionCalculator of the carbon emission dashboard       *)
(* (src/utils/emission_calculator.py), of the calls the pages make on it,  *)
(* and of the two stores of calculations: the DataHandler of a session     *)
(* (src/utils/data_handler.py) and the LocalDataManager with its JSON      *)
(* files (src/local_data_handler.py).                                      *)
(*                                                                         *)
(* Numbers.  Python floats are modelled as exact rationals [s, n, d] in    *)
(* lowest terms with d > 0; float("inf") is the record inf.  Every         *)
(* arithmetic operator of the source (+, -, *, /, min, max, round) is an   *)
(* operator below (RAdd, RSub, RMul, RDiv, RMin, RMax, round1), applied in *)
(* the order the source applies it.  Binary rounding of the last bit of a  *)
(* float is not modelled.                                                  *)
(*                                                                         *)
(* Strings.  A Python str is a sequence of one-character strings, so that  *)
(* str.strip() and str.lower() are computed character by character.       *)
(*                                                                         *)
(* Calls.  A call either returns a value, Return(v), or raises,            *)
(* Raise(exception name).                                                  *)
(***************************************************************************)
EXTENDS Integers, Sequences, FiniteSets, TLC

VARIABLES calculator, op, args, ret, threads, data_handler, files, sessions

vars == <<calculator, op, args, ret, threads, data_handler, files, sessions>>

-----------------------------------------------------------------------------
(* Bounds of the model *)

(* the threads that call the one calculator in parallel *)
NumThreads == 2

MaxPad == 1

MaxYears == 2

(* the last reading of the clock, in half seconds *)
MaxTick == 1

(* the sessions that save a calculation at the same time *)
NumSessions == 2

(* the entries of the calculation history file *)
MaxEntries == 2

(* the records of the calculations_history of a DataHandler *)
MaxRecords == 2

-----------------------------------------------------------------------------
(* Natural numbers of any size: the limbs of the number in base Base, lowest
   limb first, without a leading zero limb; zero is the empty sequence.  The
   numerators and denominators of the emission figures exceed 32 bits. *)

Base == 10 ^ 4

(* A local variable: With([v \in {e} |-> body]) is body with v standing for the
   value of e, computed once. *)
With(f) == f[CHOOSE v \in DOMAIN f : TRUE]

RECURSIVE BN(_)
BN(i) == IF i = 0 THEN <<>> ELSE <<i % Base>> \o BN(i \div Base)

Limb(a) == IF a = <<>> THEN 0 ELSE Head(a)

Rest(a) == IF a = <<>> THEN <<>> ELSE Tail(a)

(* the limb x below the limbs hi *)
Cons(x, hi) == IF x = 0 /\ hi = <<>> THEN <<>> ELSE <<x>> \o hi

RECURSIVE BNAddC(_, _, _)
BNAddC(a, b, c) ==
    IF a = <<>> /\ b = <<>> THEN BN(c)
    ELSE LET x == Limb(a) + Limb(b) + c
         IN  <<x % Base>> \o BNAddC(Rest(a), Rest(b), x \div Base)

BNAdd(a, b) == BNAddC(a, b, 0)

RECURSIVE BNSubC(_, _, _)
BNSubC(a, b, c) ==
    IF a = <<>> THEN <<>>
    ELSE LET x == Limb(a) - Limb(b) - c
         IN  Cons(x % Base, BNSubC(Rest(a), Rest(b), IF x < 0 THEN 1 ELSE 0))

(* a - b for a >= b *)
BNSub(a, b) == BNSubC(a, b, 0)

RECURSIVE BNCmpLimbs(_, _, _)
BNCmpLimbs(a, b, i) ==
    IF i = 0 THEN 0
    ELSE IF a[i] < b[i] THEN -1
    ELSE IF a[i] > b[i] THEN 1
    ELSE BNCmpLimbs(a, b, i - 1)

(* -1, 0, 1 as a < b, a = b, a > b *)
BNCmp(a, b) ==
    IF Len(a) < Len(b) THEN -1
    ELSE IF Len(a) > Len(b) THEN 1
    ELSE BNCmpLimbs(a, b, Len(a))

RECURSIVE BNMulSmallC(_, _, _)
BNMulSmallC(a, k, c) ==
    IF a = <<>> THEN BN(c)
    ELSE LET x == Head(a) * k + c
         IN  <<x % Base>> \o BNMulSmallC(Tail(a), k, x \div Base)

(* a * k for a native k < Base *)
BNMulSmall(a, k) == IF k = 0 THEN <<>> ELSE BNMulSmallC(a, k, 0)

RECURSIVE BNMul(_, _)
BNMul(a, b) ==
    IF a = <<>> \/ b = <<>> THEN <<>>
    ELSE IF Len(b) = 1 THEN BNMulSmall(a, b[1])
    ELSE BNAdd(BNMulSmall(a, Head(b)), Cons(0, BNMul(a, Tail(b))))

(* quotient and remainder of a by a native p <= Base *)
RECURSIVE BNDivModSmall(_, _)
BNDivModSmall(a, p) ==
    IF a = <<>> THEN [q |-> <<>>, r |-> 0]
    ELSE With([h \in {BNDivModSmall(Tail(a), p)} |->
         With([cur \in {h.r * Base + Head(a)} |->
         [q |-> Cons(cur \div p, h.q), r |-> cur % p]])])

RECURSIVE BNModSmallFold(_, _, _, _)
BNModSmallFold(a, p, i, r) ==
    IF i = 0 THEN r ELSE BNModSmallFold(a, p, i - 1, (r * Base + a[i]) % p)

BNModSmall(a, p) ==
    IF a = <<>> THEN 0
    ELSE IF Base % p = 0 THEN a[1] % p
    ELSE BNModSmallFold(a, p, Len(a), 0)

(* the largest digit t in lo..hi with b * t <= cur *)
RECURSIVE BNFindDigit(_, _, _, _)
BNFindDigit(cur, b, lo, hi) ==
    IF lo = hi THEN lo
    ELSE LET mid == (lo + hi + 1) \div 2
         IN  IF BNCmp(BNMulSmall(b, mid), cur) <= 0
             THEN BNFindDigit(cur, b, mid, hi)
             ELSE BNFindDigit(cur, b, lo, mid - 1)

(* quotient and remainder of a by b > 0, limb by limb from the top *)
RECURSIVE BNDivMod(_, _)
BNDivMod(a, b) ==
    IF a = <<>> THEN [q |-> <<>>, r |-> <<>>]
    ELSE With([h \in {BNDivMod(Tail(a), b)} |->
         With([cur \in {Cons(Head(a), h.r)} |->
         With([t \in {BNFindDigit(cur, b, 0, Base - 1)} |->
         [q |-> Cons(t, h.q), r |-> BNSub(cur, BNMulSmall(b, t))]])])])

-----------------------------------------------------------------------------
(* Rational arithmetic standing for Python float arithmetic.  A number is
   [s, n, d]: its sign s (-1, 0, 1), and the limbs of its numerator n and of its
   denominator d.  Norm divides n and d by their common factors 2, 3, 5 and 7.
   These are the only primes in the denominators of the constants and in the
   divisors of the program on the arguments below (mpg, 100, 8000, 120, 6, 2.4,
   years - 1), so that equal numbers have equal records; the one divisor with
   other primes is annual_savings in carbon_payback_years, which is compared
   with REq. *)

Abs(x) == IF x < 0 THEN -x ELSE x

Sign(x) == IF x < 0 THEN -1 ELSE IF x > 0 THEN 1 ELSE 0

Divisors == <<10000, 100, 10, 8, 2, 125, 5, 9, 3, 7>>

RECURSIVE Strip(_, _, _, _)
Strip(s, n, d, i) ==
    IF i > Len(Divisors) THEN [s |-> s, n |-> n, d |-> d]
    ELSE IF BNModSmall(n, Divisors[i]) = 0 /\ BNModSmall(d, Divisors[i]) = 0
         THEN Strip(s, BNDivModSmall(n, Divisors[i]).q, BNDivModSmall(d, Divisors[i]).q, i)
         ELSE Strip(s, n, d, i + 1)

Norm(s, n, d) ==
    IF n = <<>> THEN [s |-> 0, n |-> <<>>, d |-> <<1>>] ELSE Strip(s, n, d, 1)

(* the number n / d of native integers, d > 0 *)
R(n, d) == Norm(Sign(n), BN(Abs(n)), BN(d))

IntR(i) == R(i, 1)

(* float("inf") *)
inf == [s |-> 1, n |-> <<1>>, d |-> <<>>]

IsFinite(x) == x.d # <<>>

RIsZero(a) == a.s = 0

RNeg(a) == [s |-> -a.s, n |-> a.n, d |-> a.d]

RAdd(a, b) ==
    IF a.s = 0 THEN b
    ELSE IF b.s = 0 THEN a
    ELSE
    With([same \in {a.d = b.d} |->
    With([x \in {IF same THEN a.n ELSE BNMul(a.n, b.d)} |->
    With([y \in {IF same THEN b.n ELSE BNMul(b.n, a.d)} |->
    With([d \in {IF same THEN a.d ELSE BNMul(a.d, b.d)} |->
    With([c \in {BNCmp(x, y)} |->
        IF a.s = b.s THEN Norm(a.s, BNAdd(x, y), d)
        ELSE IF c = 0 THEN Norm(0, <<>>, d)
        ELSE IF c > 0 THEN Norm(a.s, BNSub(x, y), d)
        ELSE Norm(b.s, BNSub(y, x), d)])])])])])

RSub(a, b) == RAdd(a, RNeg(b))

RMul(a, b) == Norm(a.s * b.s, BNMul(a.n, b.n), BNMul(a.d, b.d))

(* a / b for b # 0; the callers raise ZeroDivisionError when b = 0 *)
RDiv(a, b) == Norm(a.s * b.s, BNMul(a.n, b.d), BNMul(a.d, b.n))

(* a = b as numbers *)
REq(a, b) == a.s = b.s /\ BNMul(a.n, b.d) = BNMul(b.n, a.d)

RLt(a, b) == RSub(a, b).s < 0

RLe(a, b) == RSub(a, b).s <= 0

RGt(a, b) == RLt(b, a)

(* Python min(a, b): b only when b < a *)
RMin(a, b) == IF RLt(b, a) THEN b ELSE a

(* Python max(a, b): b only when b > a *)
RMax(a, b) == IF RGt(b, a) THEN b ELSE a

(* Python round(x, 1): the nearest multiple of 1/10, a tie to the even one *)
round1(x) ==
    With([qr \in {BNDivMod(BNMulSmall(x.n, 10), x.d)} |->
    With([c \in {BNCmp(BNMulSmall(qr.r, 2), x.d)} |->
    With([up \in {c > 0 \/ (c = 0 /\ Limb(qr.q) % 2 = 1)} |->
        Norm(x.s, IF up THEN BNAdd(qr.q, <<1>>) ELSE qr.q, <<10>>)])])])

-----
(* Python values: None, str, numbers, call outcomes *)

None == [type |-> "NoneType"]

Str(s) == [type |-> "str", val |-> s]

Float(x) == [type |-> "float", val |-> x]

Return(v) == [kind |-> "return", value |-> v]

Raise(e) == [kind |-> "raise", exc |-> e]

IsReturn(r) == r.kind = "return"

UpperChars ==
    <<"A", "B", "D", "E", "H", "K", "N", "P", "R", "S", "U", "W", "X", "Ö", "Ü",
      "C", "F", "G", "I", "L", "M", "O", "T", "Y">>

LowerChars ==
    <<"a", "b", "d", "e", "h", "k", "n", "p", "r", "s", "u", "w", "x", "ö", "ü",
      "c", "f", "g", "i", "l", "m", "o", "t", "y">>

IsSpace(c) == c \in {" ", "\t", "\n"}

(* str.lower() on one character *)
LowerChar(c) ==
    IF \E i \in 1..Len(UpperChars) : UpperChars[i] = c
    THEN LowerChars[CHOOSE i \in 1..Len(UpperChars) : UpperChars[i] = c]
    ELSE c

(* str.upper() on one character *)
UpperChar(c) ==
    IF \E i \in 1..Len(LowerChars) : LowerChars[i] = c
    THEN UpperChars[CHOOSE i \in 1..Len(LowerChars) : LowerChars[i] = c]
    ELSE c

lower(s) == [i \in 1..Len(s) |-> LowerChar(s[i])]

upper(s) == [i \in 1..Len(s) |-> UpperChar(s[i])]

(* str.strip(): drop the leading and the trailing whitespace *)
strip(s) ==
    With([keep \in {{i \in 1..Len(s) : ~IsSpace(s[i])}} |->
        IF keep = {} THEN <<>>
        ELSE SubSeq(s, CHOOSE i \in keep : \A j \in keep : i <= j,
                       CHOOSE i \in keep : \A j \in keep : j <= i)])

-----------------------------------------------------------------------------
(* Region names of grid_factors *)

Deutschland2025 ==
    <<"D", "e", "u", "t", "s", "c", "h", "l", "a", "n", "d", " ", "2", "0", "2", "5">>

DeutschlandKohleausstieg2030 ==
    <<"D", "e", "u", "t", "s", "c", "h", "l", "a", "n", "d", " ", "K", "o", "h", "l",
      "e", "a", "u", "s", "s", "t", "i", "e", "g", " ", "2", "0", "3", "0">>

DeutschlandErneuerbar2035 ==
    <<"D", "e", "u", "t", "s", "c", "h", "l", "a", "n", "d", " ", "E", "r", "n", "e",
      "u", "e", "r", "b", "a", "r", " ", "2", "0", "3", "5">>

BayernWasserAtom ==
    <<"B", "a", "y", "e", "r", "n", " ", "(", "W", "a", "s", "s", "e", "r", "/", "A",
      "t", "o", "m", ")">>

NordrheinWestfalenKohle ==
    <<"N", "o", "r", "d", "r", "h", "e", "i", "n", "-", "W", "e", "s", "t", "f", "a",
      "l", "e", "n", " ", "(", "K", "o", "h", "l", "e", ")">>

SchleswigHolsteinWind ==
    <<"S", "c", "h", "l", "e", "s", "w", "i", "g", "-", "H", "o", "l", "s", "t", "e",
      "i", "n", " ", "(", "W", "i", "n", "d", ")">>

BadenWuerttemberg ==
    <<"B", "a", "d", "e", "n", "-", "W", "ü", "r", "t", "t", "e", "m", "b", "e", "r", "g">>

Oesterreich ==
    <<"Ö", "s", "t", "e", "r", "r", "e", "i", "c", "h">>

Polen ==
    <<"P", "o", "l", "e", "n">>

EUDurchschnitt ==
    <<"E", "U", "-", "D", "u", "r", "c", "h", "s", "c", "h", "n", "i", "t", "t">>

-----------------------------------------------------------------------------
(* EmissionCalculator.__init__: the constant tables *)

grid_factors ==
    (Deutschland2025 :> R(366, 1000))
    @@ (DeutschlandKohleausstieg2030 :> R(280, 1000))
    @@ (DeutschlandErneuerbar2035 :> R(150, 1000))
    @@ (BayernWasserAtom :> R(220, 1000))
    @@ (NordrheinWestfalenKohle :> R(450, 1000))
    @@ (SchleswigHolsteinWind :> R(180, 1000))
    @@ (BadenWuerttemberg :> R(250, 1000))
    @@ (Oesterreich :> R(140, 1000))
    @@ (Polen :> R(690, 1000))
    @@ (EUDurchschnitt :> R(295, 1000))

(* {k.strip().lower(): v for k, v in self.grid_factors.items()} *)
grid_factors_lc(gf) ==
    [key \in {lower(strip(k)) : k \in DOMAIN gf} |->
        gf[CHOOSE k \in DOMAIN gf : lower(strip(k)) = key]]

pollutant_ratios_DieselRatiosForBoth ==
    [NOx |-> [diesel |-> R(15, 1000), electric |-> R(15, 1000)],
     PM25 |-> [diesel |-> R(8, 10000), electric |-> R(8, 10000)],
     SO2 |-> [diesel |-> R(3, 10000), electric |-> R(3, 10000)]]

pollutant_ratios ==
    [NOx |-> [diesel |-> R(15, 1000), electric |-> R(2, 1000)],
     PM25 |-> [diesel |-> R(8, 10000), electric |-> R(1, 10000)],
     SO2 |-> [diesel |-> R(3, 10000), electric |-> R(1, 1000)]]

lifecycle_emissions_EndOfLifeOutsideTotal ==
    [electric |->
        [raw_material_extraction |-> IntR(2300),
         battery_production |-> IntR(3800),
         vehicle_assembly |-> IntR(2200),
         transportation |-> IntR(350),
         end_of_life |-> IntR(-600),
         total_manufacturing |-> IntR(8650)],
     diesel |->
        [raw_material_extraction |-> IntR(1400),
         engine_production |-> IntR(2800),
         vehicle_assembly |-> IntR(2300),
         transportation |-> IntR(350),
         end_of_life |-> IntR(-250),
         total_manufacturing |-> IntR(6850)]]

lifecycle_emissions ==
    [electric |->
        [raw_material_extraction |-> IntR(2300),
         battery_production |-> IntR(3800),
         vehicle_assembly |-> IntR(2200),
         transportation |-> IntR(350),
         end_of_life |-> IntR(-600),
         total_manufacturing |-> IntR(8050)],
     diesel |->
        [raw_material_extraction |-> IntR(1400),
         engine_production |-> IntR(2800),
         vehicle_assembly |-> IntR(2300),
         transportation |-> IntR(350),
         end_of_life |-> IntR(-250),
         total_manufacturing |-> IntR(6600)]]

fuel_cycle_factors ==
    [diesel |->
        [extraction |-> R(65, 100),
         refining |-> R(52, 100),
         transportation |-> R(18, 100),
         total_upstream |-> R(135, 100)],
     electricity |->
        [transmission_losses |-> R(5, 100),
         grid_infrastructure |-> R(2, 100)]]

diesel_factor == R(268, 100)

diesel_density == R(832, 1000)

(* the imperial gallon *)
gallon_to_liter_Imperial == R(454609, 100000)

gallon_to_liter == R(378541, 100000)

EmissionCalculator ==
    [diesel_factor |-> diesel_factor,
     diesel_density |-> diesel_density,
     gallon_to_liter |-> gallon_to_liter,
     grid_factors |-> grid_factors,
     _grid_factors_lc |-> grid_factors_lc(grid_factors),
     pollutant_ratios |-> pollutant_ratios,
     lifecycle_emissions |-> lifecycle_emissions,
     fuel_cycle_factors |-> fuel_cycle_factors]

-----------------------------------------------------------------------------
(* dict helpers *)

(* d.get(key): the value, or None *)
DictGet(d, key) == IF key \in DOMAIN d THEN d[key] ELSE None

(* d[key] = value on a dict d *)
DictSet(d, key, value) ==
    [k \in DOMAIN d \cup {key} |-> IF k = key THEN value ELSE d[k]]

-----------------------------------------------------------------------------
(* EmissionCalculator._grid_factor *)

(* the lookup without strip() *)
_grid_factor_NoStrip(self, grid_name) ==
    IF grid_name.type \in {"int", "float"}
    THEN grid_name.val
    ELSE DictGet(self._grid_factors_lc,
                 lower(IF grid_name.type = "str" THEN grid_name.val ELSE <<>>))

_grid_factor(self, grid_name) ==
    IF grid_name.type \in {"int", "float"}
    THEN grid_name.val
    ELSE DictGet(self._grid_factors_lc,
                 lower(strip(IF grid_name.type = "str" THEN grid_name.val ELSE <<>>)))

-----------------------------------------------------------------------------
(* EmissionCalculator.calculate_diesel_emissions *)

(* lifecycle_breakdown: the copy of lifecycle_emissions["diesel"] with the three
   operation entries *)
(* the breakdown with the upstream emissions of one year as operation_upstream *)
diesel_lifecycle_breakdown_AnnualUpstream(self, co2_annual_direct, co2_annual_upstream, co2_lifetime, years) ==
    LET lb0 == self.lifecycle_emissions.diesel
        lb1 == DictSet(lb0, "operation_direct", RMul(co2_annual_direct, IntR(years)))
        lb2 == DictSet(lb1, "operation_upstream", co2_annual_upstream)
    IN  DictSet(lb2, "total_operation", co2_lifetime)

diesel_lifecycle_breakdown(self, co2_annual_direct, co2_annual_upstream, co2_lifetime, years) ==
    LET lb0 == self.lifecycle_emissions.diesel
        lb1 == DictSet(lb0, "operation_direct", RMul(co2_annual_direct, IntR(years)))
        lb2 == DictSet(lb1, "operation_upstream", RMul(co2_annual_upstream, IntR(years)))
    IN  DictSet(lb2, "total_operation", co2_lifetime)

calculate_diesel_emissions(self, annual_mileage, mpg, years) ==
    IF RIsZero(mpg) THEN Raise("ZeroDivisionError")
    ELSE
    With([annual_gallons \in {RDiv(annual_mileage, mpg)} |->
    With([annual_liters \in {RMul(annual_gallons, self.gallon_to_liter)} |->
    With([co2_annual_direct \in {RMul(annual_liters, self.diesel_factor)} |->
    With([co2_annual_upstream \in
            {RMul(annual_liters, self.fuel_cycle_factors.diesel.total_upstream)} |->
    With([co2_annual \in {RAdd(co2_annual_direct, co2_annual_upstream)} |->
    With([co2_lifetime \in {RMul(co2_annual, IntR(years))} |->
    With([lifecycle_breakdown \in
            {diesel_lifecycle_breakdown(self, co2_annual_direct, co2_annual_upstream,
                                        co2_lifetime, years)} |->
    With([total_lifecycle \in
            {RAdd(co2_lifetime, lifecycle_breakdown.total_manufacturing)} |->
    Return(
        [co2_annual |-> co2_annual,
         co2_annual_direct |-> co2_annual_direct,
         co2_annual_upstream |-> co2_annual_upstream,
         co2_lifetime |-> co2_lifetime,
         total_lifecycle |-> total_lifecycle,
         nox_annual |-> RMul(co2_annual, self.pollutant_ratios.NOx.diesel),
         pm25_annual |-> RMul(co2_annual, self.pollutant_ratios.PM25.diesel),
         so2_annual |-> RMul(co2_annual, self.pollutant_ratios.SO2.diesel),
         fuel_annual_gallons |-> annual_gallons,
         fuel_annual_liters |-> annual_liters,
         lifecycle_breakdown |-> lifecycle_breakdown,
         manufacturing_emissions |-> lifecycle_breakdown.total_manufacturing])
    ])])])])])])])])

-----------------------------------------------------------------------------
(* EmissionCalculator.calculate_diesel_emissions_full *)

FuelTypeMult ==
    ("Regular Diesel" :> R(100, 100))
    @@ ("Bio-Diesel (B20)" :> R(90, 100))
    @@ ("Renewable Diesel" :> R(40, 100))

(* d.get(key, default) *)
DictGetDefault(d, key, default) == IF key \in DOMAIN d THEN d[key] ELSE default

diesel_upstream_per_l_Unscaled(upstream_per_l, fuel_type_mult) == upstream_per_l

(* upstream_per_l *= fuel_type_mult *)
diesel_upstream_per_l(upstream_per_l, fuel_type_mult) ==
    RMul(upstream_per_l, fuel_type_mult)

diesel_consumption_mod_FromThreshold(engine_size_l, turbo, emission_standard) ==
    With([cm0 \in {IntR(1)} |->
    With([cm1 \in {IF engine_size_l # None /\ ~RIsZero(engine_size_l)
                      /\ RLe(R(25, 10), engine_size_l)
                   THEN RMul(cm0, R(105, 100)) ELSE cm0} |->
    With([cm2 \in {IF turbo THEN RMul(cm1, R(97, 100)) ELSE cm1} |->
    IF emission_standard = "Euro 5" THEN RMul(cm2, R(102, 100)) ELSE cm2
    ])])])

(* consumption_mod: 1.0, times 1.05 if engine_size_l and engine_size_l > 2.5,
   times 0.97 if turbo, times 1.02 if emission_standard == "Euro 5" *)
diesel_consumption_mod(engine_size_l, turbo, emission_standard) ==
    With([cm0 \in {IntR(1)} |->
    With([cm1 \in {IF engine_size_l # None /\ ~RIsZero(engine_size_l)
                      /\ RGt(engine_size_l, R(25, 10))
                   THEN RMul(cm0, R(105, 100)) ELSE cm0} |->
    With([cm2 \in {IF turbo THEN RMul(cm1, R(97, 100)) ELSE cm1} |->
    IF emission_standard = "Euro 5" THEN RMul(cm2, R(102, 100)) ELSE cm2
    ])])])

calculate_diesel_emissions_full(self, annual_mileage, mpg, years, fuel_type, engine_size_l, emission_standard, turbo) ==
    With([fuel_type_mult \in {DictGetDefault(FuelTypeMult, fuel_type, R(100, 100))} |->
    With([consumption_mod \in
            {diesel_consumption_mod(engine_size_l, turbo, emission_standard)} |->
    IF RIsZero(mpg) THEN Raise("ZeroDivisionError")
    ELSE
    With([annual_gallons \in {RMul(RDiv(annual_mileage, mpg), consumption_mod)} |->
    With([annual_liters \in {RMul(annual_gallons, self.gallon_to_liter)} |->
    With([tailpipe_per_l \in {RMul(self.diesel_factor, fuel_type_mult)} |->
    With([upstream_per_l \in
            {diesel_upstream_per_l(self.fuel_cycle_factors.diesel.total_upstream,
                                   fuel_type_mult)} |->
    With([co2_annual_direct \in {RMul(annual_liters, tailpipe_per_l)} |->
    With([co2_annual_upstream \in {RMul(annual_liters, upstream_per_l)} |->
    With([co2_annual \in {RAdd(co2_annual_direct, co2_annual_upstream)} |->
    With([co2_lifetime \in {RMul(co2_annual, IntR(years))} |->
    With([lb0 \in {self.lifecycle_emissions.diesel} |->
    With([lb1 \in {DictSet(lb0, "operation_direct",
                           RMul(co2_annual_direct, IntR(years)))} |->
    With([lb2 \in {DictSet(lb1, "operation_upstream",
                           RMul(co2_annual_upstream, IntR(years)))} |->
    With([lifecycle_breakdown \in {DictSet(lb2, "total_operation", co2_lifetime)} |->
    With([total_lifecycle \in
            {RAdd(co2_lifetime, lifecycle_breakdown.total_manufacturing)} |->
    Return(
        [co2_annual |-> co2_annual,
         co2_annual_direct |-> co2_annual_direct,
         co2_annual_upstream |-> co2_annual_upstream,
         co2_lifetime |-> co2_lifetime,
         total_lifecycle |-> total_lifecycle,
         nox_annual |-> RMul(co2_annual, self.pollutant_ratios.NOx.diesel),
         pm25_annual |-> RMul(co2_annual, self.pollutant_ratios.PM25.diesel),
         so2_annual |-> RMul(co2_annual, self.pollutant_ratios.SO2.diesel),
         fuel_annual_gallons |-> annual_gallons,
         fuel_annual_liters |-> annual_liters,
         lifecycle_breakdown |-> lifecycle_breakdown,
         manufacturing_emissions |-> lifecycle_breakdown.total_manufacturing,
         assumptions |->
            [fuel_type |-> fuel_type,
             fuel_type_multiplier |-> fuel_type_mult,
             engine_size_l |-> engine_size_l,
             turbo |-> turbo,
             emission_standard |-> emission_standard,
             consumption_modifier |-> consumption_mod,
             tailpipe_per_litre |-> tailpipe_per_l,
             upstream_per_litre |-> upstream_per_l]])
    ])])])])])])])])])])])])])])])

-----------------------------------------------------------------------------
(* EmissionCalculator.calculate_ev_emissions *)

(* the lookup with its default: grid_factor = self._grid_factor(grid_mix), and
   self.grid_factors["Deutschland 2025"] if that is None *)
(* an unknown name counted as a carbon-free grid *)
ev_grid_factor_ZeroDefault(self, grid_mix) ==
    With([looked_up \in {_grid_factor(self, grid_mix)} |->
        IF looked_up = None THEN IntR(0) ELSE looked_up])

ev_grid_factor(self, grid_mix) ==
    With([looked_up \in {_grid_factor(self, grid_mix)} |->
        IF looked_up = None THEN self.grid_factors[Deutschland2025] ELSE looked_up])

(* co2_annual = (co2_annual_direct * transmission_factor) + co2_annual_upstream *)
(* the transmission losses applied twice *)
ev_co2_annual_TwiceLoss(co2_annual_direct, transmission_factor, co2_annual_upstream) ==
    RAdd(RMul(RMul(co2_annual_direct, transmission_factor), transmission_factor),
         co2_annual_upstream)

ev_co2_annual_DirectOnly(co2_annual_direct, transmission_factor, co2_annual_upstream) ==
    RMul(co2_annual_direct, transmission_factor)

ev_co2_annual(co2_annual_direct, transmission_factor, co2_annual_upstream) ==
    RAdd(RMul(co2_annual_direct, transmission_factor), co2_annual_upstream)

calculate_ev_emissions(self, annual_mileage, kwh_per_100_miles, grid_mix, years) ==
    With([annual_kwh \in {RMul(RDiv(annual_mileage, IntR(100)), kwh_per_100_miles)} |->
    With([grid_factor \in {ev_grid_factor(self, grid_mix)} |->
    With([co2_annual_direct \in {RMul(annual_kwh, grid_factor)} |->
    With([transmission_factor \in
            {RAdd(IntR(1), self.fuel_cycle_factors.electricity.transmission_losses)} |->
    With([co2_annual_upstream \in
            {RMul(annual_kwh, self.fuel_cycle_factors.electricity.grid_infrastructure)} |->
    With([co2_annual \in
            {ev_co2_annual(co2_annual_direct, transmission_factor,
                           co2_annual_upstream)} |->
    With([co2_lifetime \in {RMul(co2_annual, IntR(years))} |->
    With([lb0 \in {self.lifecycle_emissions.electric} |->
    With([lb1 \in {DictSet(lb0, "operation_direct",
                           RMul(RMul(co2_annual_direct, transmission_factor),
                                IntR(years)))} |->
    With([lb2 \in {DictSet(lb1, "operation_upstream",
                           RMul(co2_annual_upstream, IntR(years)))} |->
    With([lifecycle_breakdown \in {DictSet(lb2, "total_operation", co2_lifetime)} |->
    With([total_lifecycle \in
            {RAdd(co2_lifetime, lifecycle_breakdown.total_manufacturing)} |->
    Return(
        [co2_annual |-> co2_annual,
         co2_annual_direct |-> RMul(co2_annual_direct, transmission_factor),
         co2_annual_upstream |-> co2_annual_upstream,
         co2_lifetime |-> co2_lifetime,
         total_lifecycle |-> total_lifecycle,
         nox_annual |-> RMul(co2_annual, self.pollutant_ratios.NOx.electric),
         pm25_annual |-> RMul(co2_annual, self.pollutant_ratios.PM25.electric),
         so2_annual |-> RMul(co2_annual, self.pollutant_ratios.SO2.electric),
         electricity_annual_kwh |-> annual_kwh,
         grid_factor |-> grid_factor,
         transmission_factor |-> transmission_factor,
         lifecycle_breakdown |-> lifecycle_breakdown,
         manufacturing_emissions |-> lifecycle_breakdown.total_manufacturing])
    ])])])])])])])])])])])])

-----------------------------------------------------------------------------
(* EmissionCalculator.calculate_ev_emissions_full *)

DrivingPatternFactor ==
    ("Mostly City" :> R(105, 100))
    @@ ("Mixed (City/Highway)" :> R(100, 100))
    @@ ("Mostly Highway" :> R(95, 100))

ChargingLossFrac_FastAsHome ==
    ("Home (Level 2)" :> R(8, 100))
    @@ ("Workplace Charging" :> R(8, 100))
    @@ ("Public Fast Charging" :> R(8, 100))

ChargingLossFrac ==
    ("Home (Level 2)" :> R(8, 100))
    @@ ("Workplace Charging" :> R(8, 100))
    @@ ("Public Fast Charging" :> R(10, 100))

(* getattr(self, name, default) *)
getattr(self, name, default) == IF name \in DOMAIN self THEN self[name] ELSE default

(* the grid factor resolution of calculate_ev_emissions_full *)
ev_full_grid_factor(self, grid_mix) ==
    IF grid_mix.type \in {"int", "float"} THEN grid_mix.val
    ELSE With([looked_up \in {_grid_factor(self, grid_mix)} |->
             IF looked_up = None
             THEN DictGetDefault(self.grid_factors, Deutschland2025, R(366, 1000))
             ELSE looked_up])

calculate_ev_emissions_full(self, annual_mileage, kwh_per_100_miles, grid_mix, years, battery_kwh, driving_pattern, charging_type, cold_weather) ==
    With([driving_pattern_factor \in
            {DictGetDefault(DrivingPatternFactor, driving_pattern, R(100, 100))} |->
    With([cold_weather_factor \in
            {IF cold_weather THEN R(115, 100) ELSE R(100, 100)} |->
    With([charging_loss_frac \in
            {DictGetDefault(ChargingLossFrac, charging_type, R(8, 100))} |->
    With([eff_kwh_per_100_miles \in
            {RMul(RMul(kwh_per_100_miles, driving_pattern_factor),
                  cold_weather_factor)} |->
    With([annual_kwh_base \in
            {RMul(RDiv(annual_mileage, IntR(100)), eff_kwh_per_100_miles)} |->
    With([annual_kwh \in {RMul(annual_kwh_base, RAdd(IntR(1), charging_loss_frac))} |->
    With([grid_factor \in {ev_full_grid_factor(self, grid_mix)} |->
    With([transmission_factor \in
            {RAdd(IntR(1), self.fuel_cycle_factors.electricity.transmission_losses)} |->
    With([infra_ef \in {self.fuel_cycle_factors.electricity.grid_infrastructure} |->
    With([co2_annual_direct \in {RMul(annual_kwh, grid_factor)} |->
    With([co2_annual_upstream \in {RMul(annual_kwh, infra_ef)} |->
    With([co2_annual \in
            {RAdd(RMul(co2_annual_direct, transmission_factor),
                  co2_annual_upstream)} |->
    With([co2_lifetime \in {RMul(co2_annual, IntR(years))} |->
    With([battery_ef \in
            {getattr(self, "battery_emission_factor_kg_per_kwh", R(825, 10))} |->
    With([base_ev_body_only \in
            {getattr(self, "base_vehicle_manufacturing_ev_body_only", None)} |->
    With([default_batt_kwh \in {getattr(self, "default_battery_kwh", None)} |->
    With([manu_default_total \in
            {DictGetDefault(self.lifecycle_emissions.electric, "total_manufacturing",
                            IntR(8500))} |->
    With([manu \in
            {IF base_ev_body_only # None
             THEN RAdd(base_ev_body_only, RMul(battery_kwh, battery_ef))
             ELSE IF default_batt_kwh # None
                  THEN RAdd(RSub(manu_default_total,
                                 RMul(default_batt_kwh, battery_ef)),
                            RMul(battery_kwh, battery_ef))
                  ELSE manu_default_total} |->
    With([lb0 \in {self.lifecycle_emissions.electric} |->
    With([lb1 \in {DictSet(lb0, "operation_direct",
                           RMul(RMul(co2_annual_direct, transmission_factor),
                                IntR(years)))} |->
    With([lb2 \in {DictSet(lb1, "operation_upstream",
                           RMul(co2_annual_upstream, IntR(years)))} |->
    With([lb3 \in {DictSet(lb2, "total_operation", co2_lifetime)} |->
    With([lifecycle_breakdown \in {DictSet(lb3, "total_manufacturing", manu)} |->
    With([total_lifecycle \in {RAdd(co2_lifetime, manu)} |->
    Return(
        [co2_annual |-> co2_annual,
         co2_annual_direct |-> RMul(co2_annual_direct, transmission_factor),
         co2_annual_upstream |-> co2_annual_upstream,
         co2_lifetime |-> co2_lifetime,
         total_lifecycle |-> total_lifecycle,
         nox_annual |-> RMul(co2_annual, self.pollutant_ratios.NOx.electric),
         pm25_annual |-> RMul(co2_annual, self.pollutant_ratios.PM25.electric),
         so2_annual |-> RMul(co2_annual, self.pollutant_ratios.SO2.electric),
         electricity_annual_kwh |-> annual_kwh,
         grid_factor |-> grid_factor,
         transmission_factor |-> transmission_factor,
         lifecycle_breakdown |-> lifecycle_breakdown,
         manufacturing_emissions |-> manu,
         assumptions |->
            [driving_pattern |-> driving_pattern,
             driving_pattern_factor |-> driving_pattern_factor,
             cold_weather |-> cold_weather,
             cold_weather_factor |-> cold_weather_factor,
             charging_type |-> charging_type,
             charging_loss_fraction |-> charging_loss_frac,
             battery_kwh |-> battery_kwh,
             battery_ef_kg_per_kwh |-> battery_ef]])
    ])])])])])])])])])])])])])])])])])])])])])])])])

-----------------------------------------------------------------------------
(* EmissionCalculator.get_environmental_impact_score *)

(* the score with the weights of NOx and PM2.5 exchanged *)
get_environmental_impact_score_SwappedWeights(self, emissions_data) ==
    LET max_co2 == IntR(8000)
        co2_score ==
            RMin(IntR(100), RMul(RDiv(emissions_data.co2_annual, max_co2), IntR(100)))
        nox_score ==
            RMin(IntR(100), RMul(RDiv(emissions_data.nox_annual, IntR(120)), IntR(100)))
        pm25_score ==
            RMin(IntR(100), RMul(RDiv(emissions_data.pm25_annual, IntR(6)), IntR(100)))
        so2_score ==
            RMin(IntR(100), RMul(RDiv(emissions_data.so2_annual, R(24, 10)), IntR(100)))
    IN  Return(round1(
            RAdd(RAdd(RAdd(RMul(co2_score, R(4, 10)), RMul(nox_score, R(3, 10))),
                      RMul(pm25_score, R(2, 10))),
                 RMul(so2_score, R(1, 10)))))

get_environmental_impact_score(self, emissions_data) ==
    LET max_co2 == IntR(8000)
        co2_score ==
            RMin(IntR(100), RMul(RDiv(emissions_data.co2_annual, max_co2), IntR(100)))
        nox_score ==
            RMin(IntR(100), RMul(RDiv(emissions_data.nox_annual, IntR(120)), IntR(100)))
        pm25_score ==
            RMin(IntR(100), RMul(RDiv(emissions_data.pm25_annual, IntR(6)), IntR(100)))
        so2_score ==
            RMin(IntR(100), RMul(RDiv(emissions_data.so2_annual, R(24, 10)), IntR(100)))
    IN  Return(round1(
            RAdd(RAdd(RAdd(RMul(co2_score, R(4, 10)), RMul(nox_score, R(2, 10))),
                      RMul(pm25_score, R(3, 10))),
                 RMul(so2_score, R(1, 10)))))

-----------------------------------------------------------------------------
(* EmissionCalculator.calculate_lifecycle_analysis *)

(* manufacturing_difference / annual_savings if annual_savings > 0 else float("inf") *)
(* the payback computed for every annual_savings but zero *)
lifecycle_carbon_payback_years_NonZero(manufacturing_difference, annual_savings) ==
    IF ~RIsZero(annual_savings)
    THEN RDiv(manufacturing_difference, annual_savings)
    ELSE inf

(* a payback of zero years when there are no savings *)
lifecycle_carbon_payback_years_ZeroWhenNoSavings(manufacturing_difference, annual_savings) ==
    IF RGt(annual_savings, IntR(0))
    THEN RDiv(manufacturing_difference, annual_savings)
    ELSE IntR(0)

lifecycle_carbon_payback_years(manufacturing_difference, annual_savings) ==
    IF RGt(annual_savings, IntR(0))
    THEN RDiv(manufacturing_difference, annual_savings)
    ELSE inf

lifecycle_total_savings_Fixed15(annual_savings, years) ==
    RMul(annual_savings, IntR(15))

(* "total_savings_15_years": annual_savings * years *)
lifecycle_total_savings(annual_savings, years) ==
    RMul(annual_savings, IntR(years))

calculate_lifecycle_analysis(self, annual_mileage, ev_efficiency, diesel_efficiency, grid_mix_factor, years) ==
    With([ev_call \in {calculate_ev_emissions(self, annual_mileage, ev_efficiency,
                                              grid_mix_factor, years)} |->
    IF ~IsReturn(ev_call) THEN ev_call
    ELSE
    With([diesel_call \in {calculate_diesel_emissions(self, annual_mileage,
                                                      diesel_efficiency, years)} |->
    IF ~IsReturn(diesel_call) THEN diesel_call
    ELSE
    With([ev_results \in {ev_call.value} |->
    With([diesel_results \in {diesel_call.value} |->
    With([annual_savings \in
            {RSub(diesel_results.co2_annual, ev_results.co2_annual)} |->
    With([manufacturing_difference \in
            {RSub(ev_results.manufacturing_emissions,
                  diesel_results.manufacturing_emissions)} |->
    With([carbon_payback_years \in
            {lifecycle_carbon_payback_years(manufacturing_difference,
                                            annual_savings)} |->
    With([lifecycle_comparison \in
            {[phases |->
                <<"Raw Material Extraction", "Manufacturing", "Operation (15 years)",
                  "End of Life", "Total Lifecycle">>,
              ev_emissions |->
                <<ev_results.lifecycle_breakdown.raw_material_extraction,
                  RAdd(RAdd(ev_results.lifecycle_breakdown.battery_production,
                            ev_results.lifecycle_breakdown.vehicle_assembly),
                       ev_results.lifecycle_breakdown.transportation),
                  ev_results.co2_lifetime,
                  ev_results.lifecycle_breakdown.end_of_life,
                  ev_results.total_lifecycle>>,
              diesel_emissions |->
                <<diesel_results.lifecycle_breakdown.raw_material_extraction,
                  RAdd(RAdd(diesel_results.lifecycle_breakdown.engine_production,
                            diesel_results.lifecycle_breakdown.vehicle_assembly),
                       diesel_results.lifecycle_breakdown.transportation),
                  diesel_results.co2_lifetime,
                  diesel_results.lifecycle_breakdown.end_of_life,
                  diesel_results.total_lifecycle>>]} |->
    Return(
        [ev_results |-> ev_results,
         diesel_results |-> diesel_results,
         carbon_payback_years |-> carbon_payback_years,
         annual_savings |-> annual_savings,
         lifecycle_comparison |-> lifecycle_comparison,
         total_savings_15_years |-> lifecycle_total_savings(annual_savings, years),
         manufacturing_difference |-> manufacturing_difference])
    ])])])])])])])])

-----------------------------------------------------------------------------
(* EmissionCalculator.get_grid_decarbonization_projection *)

IntMax(a, b) == IF b > a THEN b ELSE a

(* one entry of a projection: annual_kwh * factor of the year *)
(* the projection with the first year already discounted *)
projection_annual_co2_DiscountFirstYear(base_factor, year, years, annual_mileage, kwh_per_mile) ==
    With([decarb \in
            {RSub(IntR(1),
                  RDiv(RMul(R(6, 10), IntR(year)), IntR(IntMax(1, years))))} |->
    With([factor \in {RMax(IntR(0), RMul(base_factor, decarb))} |->
    With([annual_kwh \in {RMul(annual_mileage, kwh_per_mile)} |->
    RMul(annual_kwh, factor)
    ])])])

(* the projection that ends at half of the current intensity *)
projection_annual_co2_HalfByEnd(base_factor, year, years, annual_mileage, kwh_per_mile) ==
    With([decarb \in
            {RSub(IntR(1),
                  RDiv(RMul(R(5, 10), IntR(year - 1)), IntR(IntMax(1, years - 1))))} |->
    With([factor \in {RMax(IntR(0), RMul(base_factor, decarb))} |->
    With([annual_kwh \in {RMul(annual_mileage, kwh_per_mile)} |->
    RMul(annual_kwh, factor)
    ])])])

(* the projected emissions with the transmission losses of the EV functions *)
projection_annual_co2_WithTransmissionLoss(base_factor, year, years, annual_mileage, kwh_per_mile) ==
    With([decarb \in
            {RSub(IntR(1),
                  RDiv(RMul(R(6, 10), IntR(year - 1)), IntR(IntMax(1, years - 1))))} |->
    With([factor \in {RMax(IntR(0), RMul(base_factor, decarb))} |->
    With([annual_kwh \in {RMul(annual_mileage, kwh_per_mile)} |->
    RMul(RMul(annual_kwh, factor), R(105, 100))
    ])])])

projection_annual_co2(base_factor, year, years, annual_mileage, kwh_per_mile) ==
    With([decarb \in
            {RSub(IntR(1),
                  RDiv(RMul(R(6, 10), IntR(year - 1)), IntR(IntMax(1, years - 1))))} |->
    With([factor \in {RMax(IntR(0), RMul(base_factor, decarb))} |->
    With([annual_kwh \in {RMul(annual_mileage, kwh_per_mile)} |->
    RMul(annual_kwh, factor)
    ])])])

get_grid_decarbonization_projection(self, annual_mileage, ev_efficiency, years) ==
    With([kwh_per_mile \in {RDiv(ev_efficiency, IntR(100))} |->
    Return(
        [grid_type \in DOMAIN self.grid_factors |->
            [year \in 1..IntMax(1, years) |->
                projection_annual_co2(self.grid_factors[grid_type], year, years,
                                      annual_mileage, kwh_per_mile)]])
    ])

-----------------------------------------------------------------------------
(* Objects.  The only mutable objects a result shares with its caller are its
   lifecycle_breakdown dicts.  Each is what copy() returned for the dict
   self.lifecycle_emissions[vehicle], named here by its vehicle; the item
   assignments of the call, and those of the caller afterwards, change that
   object. *)

(* the dict itself, as without .copy() *)
copy_SameObject(table) == table

(* dict.copy(): a new dict with the items of the dict *)
copy(table) == "new dict"

(* the dicts of self.lifecycle_emissions that the operation copies for its
   lifecycle_breakdown *)
BreakdownTables(o) ==
    IF o \in {"calculate_diesel_emissions", "calculate_diesel_emissions_full"}
    THEN {"diesel"}
    ELSE IF o \in {"calculate_ev_emissions", "calculate_ev_emissions_full"}
    THEN {"electric"}
    ELSE IF o = "calculate_lifecycle_analysis" THEN {"diesel", "electric"}
    ELSE {}

(* the lifecycle_breakdown made from the dict of the vehicle, in the value the
   operation returned *)
ReturnedBreakdown(o, value, vehicle) ==
    IF o = "calculate_lifecycle_analysis"
    THEN IF vehicle = "electric"
         THEN value.ev_results.lifecycle_breakdown
         ELSE value.diesel_results.lifecycle_breakdown
    ELSE value.lifecycle_breakdown

(* the calculator with the dict of the vehicle holding the items of breakdown,
   when the object copy() returned is that dict *)
StoreBreakdown(self, vehicle, breakdown) ==
    IF copy(vehicle) = vehicle
    THEN [self EXCEPT !.lifecycle_emissions[vehicle] = breakdown]
    ELSE self

SelfAfterCall_AssignsInTable(self, o, outcome) ==
    IF ~IsReturn(outcome) THEN self
    ELSE [self EXCEPT !.lifecycle_emissions =
            [vehicle \in DOMAIN @ |->
                IF vehicle \in BreakdownTables(o)
                THEN ReturnedBreakdown(o, outcome.value, vehicle)
                ELSE @[vehicle]]]

(* the calculator after the operation has returned: its item assignments on
   lifecycle_breakdown are in the objects copy() returned *)
SelfAfterCall(self, o, outcome) ==
    IF ~IsReturn(outcome) THEN self
    ELSE [self EXCEPT !.lifecycle_emissions =
            [vehicle \in DOMAIN @ |->
                IF vehicle \in BreakdownTables(o) /\ copy(vehicle) = vehicle
                THEN ReturnedBreakdown(o, outcome.value, vehicle)
                ELSE @[vehicle]]]

-----------------------------------------------------------------------------
(* Arguments the callers pass *)

DefaultYears == 15

Mileages == {IntR(-12000), IntR(0), IntR(6000), IntR(12000)}

Mpgs == {IntR(-30), IntR(0), IntR(30), IntR(80)}

Kwhs == {IntR(-34), IntR(0), IntR(20), IntR(34)}

Years == (0..MaxYears) \cup {DefaultYears}

(* the short ranges, for the calls that vary many other arguments *)
MileagesShort == {IntR(-12000), IntR(12000)}

MpgsShort == {IntR(-30), IntR(30)}

KwhsShort == {IntR(34)}

YearsShort == {1, DefaultYears}

(* k whitespace characters, blanks and tabs in turn *)
Pad(k) == [i \in 1..k |-> IF i % 2 = 1 THEN " " ELSE "\t"]

(* every region name as written, in lower and in upper case, padded on both sides *)
RegionSpellings ==
    {Pad(l) \o c \o Pad(t) :
        c \in UNION {{k, lower(k), upper(k)} : k \in DOMAIN grid_factors},
        l \in 0..MaxPad, t \in 0..MaxPad}

NonexistentRegion ==
    <<"N", "o", "n", "e", "x", "i", "s", "t", "e", "n", "t", " ", "R", "e", "g", "i", "o", "n">>

(* strings that name no region, also after strip() and lower() *)
UnknownNames ==
    {<<>>, NonexistentRegion, Polen \o <<" ", "2">>, <<"P", " ", "o", "l", "e", "n">>,
     <<"D", "e", "u", "t", "s", "c", "h", "l", "a", "n", "d", "2", "0", "2", "5">>}
    \cup {Pad(k) : k \in 1..MaxPad}
    \cup {Pad(k) \o NonexistentRegion \o Pad(k) : k \in 1..MaxPad}

GridNumbers ==
    {Float(R(366, 1000)), Float(R(1, 2)), Float(IntR(0)), [type |-> "int", val |-> IntR(2)]}

GridMixes ==
    {Str(s) : s \in RegionSpellings \cup UnknownNames} \cup {None} \cup GridNumbers

GridMixesShort ==
    {Str(s) : s \in {Deutschland2025, Polen} \cup UnknownNames}
    \cup {None} \cup GridNumbers

FuelTypes == {"Regular Diesel", "Bio-Diesel (B20)", "Renewable Diesel", "Premium Diesel"}

EngineSizes == {None, IntR(2), R(25, 10), IntR(3)}

EmissionStandards == {"Euro 6", "Euro 5", "EPA Tier 3"}

BatterySizes == {IntR(40), IntR(75)}

DrivingPatterns == {"Mixed (City/Highway)", "Mostly City", "Mostly Highway", "Offroad"}

ChargingTypes == {"Home (Level 2)", "Public Fast Charging", "Solar"}

(* the defaults of the optional parameters *)
DieselDefaults ==
    [fuel_type |-> "Regular Diesel", engine_size_l |-> IntR(2),
     emission_standard |-> "Euro 6", turbo |-> TRUE]

EvDefaults ==
    [battery_kwh |-> IntR(75), driving_pattern |-> "Mixed (City/Highway)",
     charging_type |-> "Home (Level 2)", cold_weather |-> FALSE]

DieselArguments ==
    [annual_mileage : Mileages, mpg : Mpgs, years : Years]

DieselFullArguments ==
    [annual_mileage : Mileages, mpg : Mpgs, years : Years,
     fuel_type : {DieselDefaults.fuel_type},
     engine_size_l : {DieselDefaults.engine_size_l},
     emission_standard : {DieselDefaults.emission_standard},
     turbo : {DieselDefaults.turbo}]
    \cup
    [annual_mileage : MileagesShort, mpg : MpgsShort, years : YearsShort,
     fuel_type : FuelTypes, engine_size_l : EngineSizes,
     emission_standard : EmissionStandards, turbo : BOOLEAN]

EvArguments ==
    [annual_mileage : Mileages, kwh_per_100_miles : Kwhs, grid_mix : GridMixesShort,
     years : Years]
    \cup
    [annual_mileage : MileagesShort, kwh_per_100_miles : KwhsShort,
     grid_mix : GridMixes, years : YearsShort]

EvFullArguments ==
    [annual_mileage : Mileages, kwh_per_100_miles : Kwhs, grid_mix : GridMixesShort,
     years : Years,
     battery_kwh : {EvDefaults.battery_kwh},
     driving_pattern : {EvDefaults.driving_pattern},
     charging_type : {EvDefaults.charging_type},
     cold_weather : {EvDefaults.cold_weather}]
    \cup
    [annual_mileage : MileagesShort, kwh_per_100_miles : KwhsShort,
     grid_mix : {Str(Deutschland2025), Str(NonexistentRegion), Float(R(1, 2))},
     years : YearsShort,
     battery_kwh : BatterySizes, driving_pattern : DrivingPatterns,
     charging_type : ChargingTypes, cold_weather : BOOLEAN]

LifecycleArguments ==
    [annual_mileage : Mileages, ev_efficiency : Kwhs, diesel_efficiency : Mpgs,
     grid_mix_factor : {Str(Deutschland2025)}, years : Years]
    \cup
    [annual_mileage : MileagesShort, ev_efficiency : KwhsShort,
     diesel_efficiency : {IntR(30), IntR(80)},
     grid_mix_factor : GridMixesShort, years : YearsShort]

ProjectionArguments ==
    [annual_mileage : Mileages, ev_efficiency : Kwhs, years : Years]

(* emission records that no calculator call produced: at, below and far above the
   reference maxima of the impact score *)
ScoreRecords ==
    [co2_annual : {IntR(0), IntR(4000), IntR(8000), IntR(800000)},
     nox_annual : {IntR(0), IntR(120), IntR(100000)},
     pm25_annual : {IntR(0), IntR(3), IntR(6000)},
     so2_annual : {IntR(0), R(24, 10), IntR(24)}]

-----------------------------------------------------------------------------
(* The calls.  The caller is idle, makes one call on the calculator and keeps
   its outcome in ret; NextInteraction drops the outcome and the caller is idle
   again.  The impact score is computed from a record of ScoreRecords, or from
   the record that calculate_diesel_emissions or calculate_ev_emissions has
   just returned, as the quick calculation of the dashboard does. *)

(* the outcome of operation o of the calculator self with the arguments a *)
Call(self, o, a) ==
    CASE o = "calculate_diesel_emissions" ->
            calculate_diesel_emissions(self, a.annual_mileage, a.mpg, a.years)
      [] o = "calculate_diesel_emissions_full" ->
            calculate_diesel_emissions_full(self, a.annual_mileage, a.mpg, a.years,
                a.fuel_type, a.engine_size_l, a.emission_standard, a.turbo)
      [] o = "calculate_ev_emissions" ->
            calculate_ev_emissions(self, a.annual_mileage, a.kwh_per_100_miles,
                a.grid_mix, a.years)
      [] o = "calculate_ev_emissions_full" ->
            calculate_ev_emissions_full(self, a.annual_mileage, a.kwh_per_100_miles,
                a.grid_mix, a.years, a.battery_kwh, a.driving_pattern,
                a.charging_type, a.cold_weather)
      [] o = "calculate_lifecycle_analysis" ->
            calculate_lifecycle_analysis(self, a.annual_mileage, a.ev_efficiency,
                a.diesel_efficiency, a.grid_mix_factor, a.years)
      [] o = "get_grid_decarbonization_projection" ->
            get_grid_decarbonization_projection(self, a.annual_mileage,
                a.ev_efficiency, a.years)
      [] o = "get_environmental_impact_score" ->
            get_environmental_impact_score(self, a.emissions_data)

-----------------------------------------------------------------------------
(* Values that the data handlers store.  A list is List(sequence), a dict is
   Dict(keys in insertion order, items), a str is Str(characters), a number is
   Float(x) or PyInt(i); Obj(d) is a dict whose text is not broken down below,
   the result dict of a calculator call. *)

List(xs) == [type |-> "list", val |-> xs]

Dict(keys, items) == [type |-> "dict", keys |-> keys, val |-> items]

PyInt(i) == [type |-> "int", val |-> IntR(i)]

Obj(d) == [type |-> "object", val |-> d]

(* d[key] of a dict of the calculator *)
GetItem(d, key) == IF key \in DOMAIN d THEN Return(d[key]) ELSE Raise("KeyError")

(* bool(v) of None and of a str *)
Truthy(v) == v.type # "NoneType" /\ (v.type = "str" => v.val # <<>>)

(* seq[:limit] *)
SliceTo(seq, limit) ==
    IF limit >= 0
    THEN SubSeq(seq, 1, IF limit < Len(seq) THEN limit ELSE Len(seq))
    ELSE SubSeq(seq, 1, IF Len(seq) + limit > 0 THEN Len(seq) + limit ELSE 0)

-----------------------------------------------------------------------------
(* json.  The text of a file is a sequence of units: the brackets, braces and
   commas, one unit for a key with its colon, one unit for every character of
   a str between its two quotes, and one unit for a number, for None and for a
   nested result dict.  The white space of indent=2 is left out. *)

Punct(p) == [u |-> p]

Ch(c) == [u |-> "ch", c |-> c]

Key(k) == [u |-> "key", k |-> k]

Scalar(v) == [u |-> "scalar", v |-> v]

RECURSIVE dumps(_)
RECURSIVE dumps_items(_, _)
RECURSIVE dumps_members(_, _)
(* the items of a list from the i-th one, separated by commas *)
dumps_items(xs, i) ==
    IF i > Len(xs) THEN <<>>
    ELSE dumps(xs[i]) \o (IF i < Len(xs) THEN <<Punct(",")>> ELSE <<>>)
            \o dumps_items(xs, i + 1)

(* the members of a dict from the i-th key *)
dumps_members(d, i) ==
    IF i > Len(d.keys) THEN <<>>
    ELSE <<Key(d.keys[i])>> \o dumps(d.val[d.keys[i]])
            \o (IF i < Len(d.keys) THEN <<Punct(",")>> ELSE <<>>)
            \o dumps_members(d, i + 1)

(* json.dumps(v) *)
dumps(v) ==
    IF v.type = "str"
    THEN <<Punct("quote")>> \o [i \in 1..Len(v.val) |-> Ch(v.val[i])] \o <<Punct("quote")>>
    ELSE IF v.type = "list"
    THEN <<Punct("[")>> \o dumps_items(v.val, 1) \o <<Punct("]")>>
    ELSE IF v.type = "dict"
    THEN <<Punct("{")>> \o dumps_members(v, 1) \o <<Punct("}")>>
    ELSE <<Scalar(v)>>

(* the decoder.  value_end is the index of the unit behind the value that
   starts at unit i of the text, 0 when no value starts there *)
UnitIs(text, i, u) == i >= 1 /\ i <= Len(text) /\ text[i].u = u

(* the first unit from i on that is not a character of a str *)
string_close(text, i) ==
    IF \A j \in i..Len(text) : text[j].u = "ch" THEN 0
    ELSE CHOOSE j \in i..Len(text) :
            text[j].u # "ch" /\ \A k \in i..(j - 1) : text[k].u = "ch"

RECURSIVE value_end(_, _)
RECURSIVE items_end(_, _)
RECURSIVE members_end(_, _)
items_end(text, i) ==
    LET e == value_end(text, i)
    IN  IF e = 0 THEN 0
        ELSE IF UnitIs(text, e, ",") THEN items_end(text, e + 1)
        ELSE IF UnitIs(text, e, "]") THEN e + 1
        ELSE 0

members_end(text, i) ==
    IF ~UnitIs(text, i, "key") THEN 0
    ELSE LET e == value_end(text, i + 1)
         IN  IF e = 0 THEN 0
             ELSE IF UnitIs(text, e, ",") THEN members_end(text, e + 1)
             ELSE IF UnitIs(text, e, "}") THEN e + 1
             ELSE 0

value_end(text, i) ==
    IF UnitIs(text, i, "scalar") THEN i + 1
    ELSE IF UnitIs(text, i, "quote")
    THEN IF UnitIs(text, string_close(text, i + 1), "quote")
         THEN string_close(text, i + 1) + 1 ELSE 0
    ELSE IF UnitIs(text, i, "[")
    THEN IF UnitIs(text, i + 1, "]") THEN i + 2 ELSE items_end(text, i + 1)
    ELSE IF UnitIs(text, i, "{")
    THEN IF UnitIs(text, i + 1, "}") THEN i + 2 ELSE members_end(text, i + 1)
    ELSE 0

(* where the items of a list start whose first item starts at i, and where
   the members of a dict start whose first key is at i *)
RECURSIVE item_starts(_, _)
item_starts(text, i) ==
    <<i>> \o (IF UnitIs(text, value_end(text, i), ",")
              THEN item_starts(text, value_end(text, i) + 1) ELSE <<>>)

RECURSIVE member_starts(_, _)
member_starts(text, i) ==
    <<i>> \o (IF UnitIs(text, value_end(text, i + 1), ",")
              THEN member_starts(text, value_end(text, i + 1) + 1) ELSE <<>>)

(* the keys in the order of their first member *)
RECURSIVE keys_in_order(_, _, _)
keys_in_order(text, starts, j) ==
    IF j > Len(starts) THEN <<>>
    ELSE (IF \E h \in 1..(j - 1) : text[starts[h]].k = text[starts[j]].k
          THEN <<>> ELSE <<text[starts[j]].k>>)
            \o keys_in_order(text, starts, j + 1)

(* the value that starts at unit i, where value_end(text, i) is not 0; of
   two members with one key the later one counts *)
RECURSIVE parse_value(_, _)
parse_value(text, i) ==
    IF UnitIs(text, i, "scalar") THEN text[i].v
    ELSE IF UnitIs(text, i, "quote")
    THEN Str([k \in 1..(string_close(text, i + 1) - i - 1) |-> text[i + k].c])
    ELSE IF UnitIs(text, i, "[")
    THEN IF UnitIs(text, i + 1, "]") THEN List(<<>>)
         ELSE With([starts \in {item_starts(text, i + 1)} |->
              List([j \in 1..Len(starts) |-> parse_value(text, starts[j])])
              ])
    ELSE IF UnitIs(text, i + 1, "}") THEN Dict(<<>>, <<>>)
    ELSE With([starts \in {member_starts(text, i + 1)} |->
         Dict(keys_in_order(text, starts, 1),
              [key \in {text[starts[j]].k : j \in 1..Len(starts)} |->
                    parse_value(text,
                        1 + starts[CHOOSE j \in 1..Len(starts) :
                                /\ text[starts[j]].k = key
                                /\ \A h \in (j + 1)..Len(starts) :
                                        text[starts[h]].k # key])])
         ])

(* json.loads(text): the one value that is the whole text, JSONDecodeError for
   an empty text, a broken value or extra data after the value *)
loads(text) ==
    IF value_end(text, 1) = Len(text) + 1 THEN Return(parse_value(text, 1))
    ELSE Raise("JSONDecodeError")

-----------------------------------------------------------------------------
(* Files of the data directory.  A file exists or not and has a text. *)

NoFile == [exists |-> FALSE, text |-> <<>>]

File(text) == [exists |-> TRUE, text |-> text]

(* open(file, 'w'), f.write(text), close: the file is that text *)
write_new(text) == File(text)

(* f.write(text) at position 0 of a file opened with 'r+' and close: the units
   of the old text beyond the written ones stay *)
overwrite_from_start(file, text) ==
    File(text \o SubSeq(file.text, Len(text) + 1, Len(file.text)))

(* open(file, 'r') or 'r+', json.load(f) *)
json_load(file) ==
    IF ~file.exists THEN Raise("FileNotFoundError") ELSE loads(file.text)

-----------------------------------------------------------------------------
(* datetime.utcnow() and datetime.now().  A reading of the clock is a number
   of half seconds after 08:00:00 of one day; isoformat() writes the
   microseconds only when they are not zero. *)

ClockReadings == 0..MaxTick

Digit(n) == <<"0", "1", "2", "3", "4", "5", "6", "7", "8", "9">>[n + 1]

(* n in decimal with at least width digits *)
RECURSIVE Digits(_, _)
Digits(n, width) ==
    IF width <= 1 /\ n < 10 THEN <<Digit(n)>>
    ELSE Append(Digits(n \div 10, width - 1), Digit(n % 10))

(* datetime.isoformat() *)
isoformat(now) ==
    With([second \in {now \div 2} |->
    With([microsecond \in {(now % 2) * 500000} |->
    <<"2", "0", "2", "5", "-", "0", "1", "-", "0", "1", "T", "0", "8", ":", "0", "0", ":">>
        \o Digits(second, 2)
        \o (IF microsecond = 0 THEN <<>> ELSE <<".">> \o Digits(microsecond, 6))
    ])])

(* ord(c) of the characters of an isoformat text *)
ord(c) ==
    IF c = "-" THEN 45 ELSE IF c = "." THEN 46 ELSE IF c = ":" THEN 58
    ELSE IF c = "T" THEN 84
    ELSE 48 + CHOOSE n \in 0..9 : Digit(n) = c

(* a < b of two str *)
StrLt(a, b) ==
    IF \E i \in 1..Len(a) : i <= Len(b) /\ a[i] # b[i]
    THEN With([i \in {CHOOSE i \in 1..Len(a) :
                        /\ i <= Len(b) /\ a[i] # b[i]
                        /\ \A j \in 1..(i - 1) : a[j] = b[j]} |->
         ord(a[i]) < ord(b[i])
         ])
    ELSE Len(a) < Len(b)

-----------------------------------------------------------------------------
(* LocalDataManager (src/local_data_handler.py).  The object holds three
   paths and nothing else; its state is the files of the data directory. *)

(* json.dump([], f) into every file that does not exist *)
_init_files(fs) ==
    [file \in DOMAIN fs |->
        IF ~fs[file].exists THEN write_new(dumps(List(<<>>))) ELSE fs[file]]

(* LocalDataManager.__init__ *)
LocalDataManager(fs) == _init_files(fs)

electric_cars ==
    <<Dict(<<"brand", "model", "vehicle_type", "efficiency", "range_km", "price_eur">>,
          [brand |-> Str(<<"B", "M", "W">>),
           model |-> Str(<<"i", "X", "3">>),
           vehicle_type |-> Str(<<"e", "l", "e", "c", "t", "r", "i", "c">>),
           efficiency |-> Float(R(290, 10)), range_km |-> PyInt(460), price_eur |-> PyInt(68300)]),
      Dict(<<"brand", "model", "vehicle_type", "efficiency", "range_km", "price_eur">>,
          [brand |-> Str(<<"M", "e", "r", "c", "e", "d", "e", "s">>),
           model |-> Str(<<"E", "Q", "C">>),
           vehicle_type |-> Str(<<"e", "l", "e", "c", "t", "r", "i", "c">>),
           efficiency |-> Float(R(325, 10)), range_km |-> PyInt(417), price_eur |-> PyInt(71281)]),
      Dict(<<"brand", "model", "vehicle_type", "efficiency", "range_km", "price_eur">>,
          [brand |-> Str(<<"V", "o", "l", "k", "s", "w", "a", "g", "e", "n">>),
           model |-> Str(<<"I", "D", ".", "4">>),
           vehicle_type |-> Str(<<"e", "l", "e", "c", "t", "r", "i", "c">>),
           efficiency |-> Float(R(280, 10)), range_km |-> PyInt(520), price_eur |-> PyInt(47515)])>>

diesel_cars ==
    <<Dict(<<"brand", "model", "vehicle_type", "efficiency", "emissions_g_km", "price_eur">>,
          [brand |-> Str(<<"B", "M", "W">>),
           model |-> Str(<<"3", "2", "0", "d">>),
           vehicle_type |-> Str(<<"d", "i", "e", "s", "e", "l">>),
           efficiency |-> Float(R(51, 10)), emissions_g_km |-> PyInt(126), price_eur |-> PyInt(46850)]),
      Dict(<<"brand", "model", "vehicle_type", "efficiency", "emissions_g_km", "price_eur">>,
          [brand |-> Str(<<"M", "e", "r", "c", "e", "d", "e", "s">>),
           model |-> Str(<<"C", "2", "2", "0", "d">>),
           vehicle_type |-> Str(<<"d", "i", "e", "s", "e", "l">>),
           efficiency |-> Float(R(52, 10)), emissions_g_km |-> PyInt(131), price_eur |-> PyInt(48561)]),
      Dict(<<"brand", "model", "vehicle_type", "efficiency", "emissions_g_km", "price_eur">>,
          [brand |-> Str(<<"V", "o", "l", "k", "s", "w", "a", "g", "e", "n">>),
           model |-> Str(<<"P", "a", "s", "s", "a", "t", " ", "T", "D", "I">>),
           vehicle_type |-> Str(<<"d", "i", "e", "s", "e", "l">>),
           efficiency |-> Float(R(47, 10)), emissions_g_km |-> PyInt(124), price_eur |-> PyInt(42995)])>>

grid_data ==
    <<Dict(<<"region", "emission_factor", "renewable_percentage", "coal_percentage",
            "gas_percentage", "nuclear_percentage", "year">>,
          [region |-> Str(<<"D", "e", "u", "t", "s", "c", "h", "l", "a", "n", "d", " ", "2", "0", "2", "5">>),
           emission_factor |-> Float(R(366, 1000)),
           renewable_percentage |-> Float(IntR(46)), coal_percentage |-> Float(IntR(24)),
           gas_percentage |-> Float(IntR(18)), nuclear_percentage |-> Float(IntR(12)),
           year |-> PyInt(2025)]),
      Dict(<<"region", "emission_factor", "renewable_percentage", "coal_percentage",
            "gas_percentage", "nuclear_percentage", "year">>,
          [region |-> Str(<<"B", "a", "y", "e", "r", "n", " ", "(", "W", "a", "s", "s", "e", "r", "/", "A", "t", "o", "m", ")">>),
           emission_factor |-> Float(R(220, 1000)),
           renewable_percentage |-> Float(IntR(55)), coal_percentage |-> Float(IntR(8)),
           gas_percentage |-> Float(IntR(12)), nuclear_percentage |-> Float(IntR(25)),
           year |-> PyInt(2025)])>>

(* LocalDataManager.initialize_sample_data: the files afterwards *)
initialize_sample_data(fs) ==
    IF fs.cars_file.exists /\ fs.grid_file.exists THEN fs
    ELSE [fs EXCEPT !.cars_file = write_new(dumps(List(electric_cars \o diesel_cars))),
                    !.grid_file = write_new(dumps(List(grid_data)))]

(* [x for x in xs if x[key] == value] *)
RECURSIVE FilterBy(_, _, _)
FilterBy(xs, key, value) ==
    IF xs = <<>> THEN <<>>
    ELSE (IF Head(xs).val[key] = value THEN <<Head(xs)>> ELSE <<>>)
            \o FilterBy(Tail(xs), key, value)

(* LocalDataManager.get_german_cars *)
get_german_cars(fs, vehicle_type) ==
    With([cars \in {json_load(fs.cars_file)} |->
    IF ~IsReturn(cars) THEN cars
    ELSE IF Truthy(vehicle_type)
    THEN Return(List(FilterBy(cars.value.val, "vehicle_type", vehicle_type)))
    ELSE cars
    ])

(* x placed into the list xs, which is in descending order of created_at,
   behind every item that is not older than x *)
RECURSIVE InsertNewestFirst(_, _)
InsertNewestFirst(xs, x) ==
    IF xs = <<>> THEN <<x>>
    ELSE IF StrLt(Head(xs).val.created_at.val, x.val.created_at.val)
    THEN <<x>> \o xs
    ELSE <<Head(xs)>> \o InsertNewestFirst(Tail(xs), x)

(* the list in the order it came in *)
sorted_by_created_at_reverse_Unsorted(xs) == xs

(* sorted(xs, key=lambda x: x['created_at'], reverse=True): a stable sort *)
RECURSIVE sorted_by_created_at_reverse(_)
sorted_by_created_at_reverse(xs) ==
    IF xs = <<>> THEN <<>>
    ELSE InsertNewestFirst(sorted_by_created_at_reverse(SubSeq(xs, 1, Len(xs) - 1)),
                           xs[Len(xs)])

(* LocalDataManager.get_calculation_history *)
get_calculation_history(fs, session_id, limit) ==
    With([loaded \in {json_load(fs.history_file)} |->
    IF ~IsReturn(loaded) THEN loaded
    ELSE
    With([history \in {IF Truthy(session_id)
                       THEN FilterBy(loaded.value.val, "user_session", session_id)
                       ELSE loaded.value.val} |->
    Return(List(SliceTo(sorted_by_created_at_reverse(history), limit)))
    ])])

(* limit=100 *)
DefaultLimit == 100

EntryKeys ==
    <<"user_session", "vehicle_type", "brand", "model", "annual_km", "efficiency",
      "grid_region", "co2_annual", "co2_lifetime", "manufacturing_emissions",
      "total_lifecycle", "calculation_data", "created_at">>

(* the entry dict of save_calculation, KeyError when the results lack a key *)
save_calculation_entry(session_id, vehicle_type, brand, model, annual_km, efficiency, grid_region, calculation_results, now) ==
    IF ~({"co2_annual", "co2_lifetime", "total_lifecycle"} \subseteq DOMAIN calculation_results)
    THEN Raise("KeyError")
    ELSE Return(Dict(EntryKeys,
        [user_session |-> session_id,
         vehicle_type |-> vehicle_type,
         brand |-> brand,
         model |-> model,
         annual_km |-> annual_km,
         efficiency |-> efficiency,
         grid_region |-> grid_region,
         co2_annual |-> Float(calculation_results.co2_annual),
         co2_lifetime |-> Float(calculation_results.co2_lifetime),
         manufacturing_emissions |->
            IF "manufacturing_emissions" \in DOMAIN calculation_results
            THEN Float(calculation_results.manufacturing_emissions) ELSE PyInt(0),
         total_lifecycle |-> Float(calculation_results.total_lifecycle),
         calculation_data |-> Obj(calculation_results),
         created_at |-> Str(isoformat(now))]))

(* history.append(entry) *)
save_calculation_append(history, entry) ==
    IF history.type = "list" THEN Return(List(Append(history.val, entry)))
    ELSE Raise("AttributeError")

(* f.seek(0); json.dump(history, f, indent=2) and the close of the file *)
save_calculation_write(file, history) == overwrite_from_start(file, dumps(history))

(* with open(self.history_file, 'r+') as f: the whole block, the file afterwards *)
save_calculation_file(file, entry) ==
    With([history \in {json_load(file)} |->
    IF ~IsReturn(history) THEN history
    ELSE
    With([appended \in {save_calculation_append(history.value, entry)} |->
    IF ~IsReturn(appended) THEN appended
    ELSE Return(save_calculation_write(file, appended.value))
    ])])

(* LocalDataManager.save_calculation: the files afterwards, or what it raises *)
LocalDataManager_save_calculation(fs, session_id, vehicle_type, brand, model, annual_km, efficiency, grid_region, calculation_results, now) ==
    With([entry \in {save_calculation_entry(session_id, vehicle_type, brand, model,
                        annual_km, efficiency, grid_region, calculation_results, now)} |->
    IF ~IsReturn(entry) THEN entry
    ELSE
    With([written \in {save_calculation_file(fs.history_file, entry.value)} |->
    IF ~IsReturn(written) THEN written
    ELSE Return([fs EXCEPT !.history_file = written.value])
    ])])

-----------------------------------------------------------------------------
(* DataHandler (src/utils/data_handler.py): the calculations of one session,
   kept in memory *)

(* DataHandler.__init__ *)
DataHandler == [calculations_history |-> <<>>]

(* DataHandler.save_calculation: the handler afterwards and the record *)
DataHandler_save_calculation(self, calculation_data, vehicle_type, parameters, now) ==
    With([record \in {[timestamp |-> Str(isoformat(now)),
                       vehicle_type |-> vehicle_type,
                       parameters |-> parameters,
                       results |-> calculation_data]} |->
    [self |-> [self EXCEPT !.calculations_history = Append(@, record)],
     outcome |-> Return(record)]
    ])

Columns ==
    <<"Timestamp", "Vehicle Type", "Annual Mileage", "Efficiency", "CO2 Annual (kg)",
      "CO2 Lifetime (kg)", "Total Lifetime (kg)">>

(* pd.DataFrame(data) of a list of rows, pd.DataFrame() for no rows *)
DataFrame(data) == [columns |-> IF data = <<>> THEN <<>> ELSE Columns, rows |-> data]

(* df.empty *)
empty(df) == df.rows = <<>>

NotAvailable == Str(<<"N", "/", "A">>)

(* the keys of calc["results"] that a row reads *)
ResultKeysRead == {"co2_annual", "co2_lifetime", "total_lifetime"}

(* the row of one record, for a record that has the keys *)
calculation_row(calc) ==
    [column \in {Columns[j] : j \in 1..Len(Columns)} |->
        CASE column = "Timestamp" -> calc.timestamp
          [] column = "Vehicle Type" -> calc.vehicle_type
          [] column = "Annual Mileage" ->
                DictGetDefault(calc.parameters, "annual_mileage", NotAvailable)
          [] column = "Efficiency" ->
                DictGetDefault(calc.parameters, "efficiency", NotAvailable)
          [] column = "CO2 Annual (kg)" -> calc.results.co2_annual
          [] column = "CO2 Lifetime (kg)" -> calc.results.co2_lifetime
          [] column = "Total Lifetime (kg)" -> calc.results.total_lifetime]

(* DataHandler.get_calculations_df *)
get_calculations_df(self) ==
    IF self.calculations_history = <<>> THEN Return(DataFrame(<<>>))
    ELSE IF \E i \in 1..Len(self.calculations_history) :
                ~(ResultKeysRead \subseteq DOMAIN self.calculations_history[i].results)
    THEN Raise("KeyError")
    ELSE Return(DataFrame([i \in 1..Len(self.calculations_history) |->
                                calculation_row(self.calculations_history[i])]))

(* df.to_csv(index=False): the line of the column names and one line of
   cells for every row *)
to_csv(df) ==
    <<df.columns>>
        \o [i \in 1..Len(df.rows) |-> [j \in 1..Len(df.columns) |-> df.rows[i][df.columns[j]]]]

(* DataHandler.export_to_csv *)
export_to_csv(self) ==
    With([df \in {get_calculations_df(self)} |->
    IF ~IsReturn(df) THEN df
    ELSE IF ~empty(df.value) THEN Return(to_csv(df.value))
    ELSE Return(None)
    ])

ElectricVehicle == <<"E", "l", "e", "c", "t", "r", "i", "c", " ", "V", "e", "h", "i", "c", "l", "e">>

DieselVehicle == <<"D", "i", "e", "s", "e", "l", " ", "V", "e", "h", "i", "c", "l", "e">>

(* df[df["Vehicle Type"] == vehicle_type] *)
RECURSIVE RowsOfType(_, _)
RowsOfType(rows, vehicle_type) ==
    IF rows = <<>> THEN <<>>
    ELSE (IF Head(rows)["Vehicle Type"] = Str(vehicle_type) THEN <<Head(rows)>> ELSE <<>>)
            \o RowsOfType(Tail(rows), vehicle_type)

RECURSIVE ColumnSum(_, _)
ColumnSum(rows, column) ==
    IF rows = <<>> THEN IntR(0)
    ELSE RAdd(Head(rows)[column], ColumnSum(Tail(rows), column))

(* rows[column].mean() of at least one row *)
mean(rows, column) == RDiv(ColumnSum(rows, column), IntR(Len(rows)))

(* DataHandler.get_summary_statistics *)
get_summary_statistics(self) ==
    IF self.calculations_history = <<>> THEN Return(None)
    ELSE
    With([df \in {get_calculations_df(self)} |->
    IF ~IsReturn(df) THEN df
    ELSE
    With([ev_data \in {RowsOfType(df.value.rows, ElectricVehicle)} |->
    With([diesel_data \in {RowsOfType(df.value.rows, DieselVehicle)} |->
    Return(
        [key \in {"total_calculations", "ev_calculations", "diesel_calculations"}
                 \cup (IF ev_data # <<>>
                       THEN {"ev_avg_annual_co2", "ev_avg_lifetime_co2"} ELSE {})
                 \cup (IF diesel_data # <<>>
                       THEN {"diesel_avg_annual_co2", "diesel_avg_lifetime_co2"} ELSE {})
                 \cup (IF ev_data # <<>> /\ diesel_data # <<>>
                       THEN {"avg_annual_reduction", "avg_lifetime_reduction"} ELSE {}) |->
            CASE key = "total_calculations" -> IntR(Len(df.value.rows))
              [] key = "ev_calculations" -> IntR(Len(ev_data))
              [] key = "diesel_calculations" -> IntR(Len(diesel_data))
              [] key = "ev_avg_annual_co2" -> mean(ev_data, "CO2 Annual (kg)")
              [] key = "ev_avg_lifetime_co2" -> mean(ev_data, "CO2 Lifetime (kg)")
              [] key = "diesel_avg_annual_co2" -> mean(diesel_data, "CO2 Annual (kg)")
              [] key = "diesel_avg_lifetime_co2" -> mean(diesel_data, "CO2 Lifetime (kg)")
              [] key = "avg_annual_reduction" ->
                    RSub(mean(diesel_data, "CO2 Annual (kg)"),
                         mean(ev_data, "CO2 Annual (kg)"))
              [] key = "avg_lifetime_reduction" ->
                    RSub(mean(diesel_data, "CO2 Lifetime (kg)"),
                         mean(ev_data, "CO2 Lifetime (kg)"))])
    ])])])

(* DataHandler.clear_history *)
clear_history(self) == [self EXCEPT !.calculations_history = <<>>]

-----------------------------------------------------------------------------
(* pages/1_Vehicle_input.py: the button Calculate Emissions *)

USAverage == <<"U", "S", " ", "A", "v", "e", "r", "a", "g", "e">>

(* the widgets of the page: the vehicle type, with the default and the lowest
   annual mileage and the default efficiency and lifetime *)
VehicleInputs ==
    [vehicle_type : {ElectricVehicle}, annual_mileage : {IntR(1000), IntR(12000)},
     efficiency : {IntR(34)}, vehicle_age : {DefaultYears}]
    \cup
    [vehicle_type : {DieselVehicle}, annual_mileage : {IntR(12000)},
     efficiency : {IntR(30)}, vehicle_age : {DefaultYears}]

(* parameters: the four common items; the items of the vehicle type are the
   defaults of their widgets *)
vehicle_input_parameters(w) ==
    [annual_mileage |-> w.annual_mileage,
     efficiency |-> w.efficiency,
     vehicle_age |-> w.vehicle_age,
     driving_pattern |-> "Mixed (City/Highway)"]

(* results = calculate_ev_emissions(...) or calculate_diesel_emissions(...) *)
vehicle_input_results(self, w) ==
    IF w.vehicle_type = ElectricVehicle
    THEN calculate_ev_emissions(self, w.annual_mileage, w.efficiency, Str(USAverage),
                                w.vehicle_age)
    ELSE calculate_diesel_emissions(self, w.annual_mileage, w.efficiency, w.vehicle_age)

(* what the page shows after the save: the three metrics and the impact score *)
vehicle_input_display(self, results) ==
    IF ~({"co2_annual", "co2_lifetime", "total_lifetime"} \subseteq DOMAIN results)
    THEN Raise("KeyError")
    ELSE Return([co2_annual |-> results.co2_annual,
                 co2_lifetime |-> results.co2_lifetime,
                 total_lifetime |-> results.total_lifetime,
                 impact_score |-> get_environmental_impact_score(self, results).value])

-----------------------------------------------------------------------------
(* carbon_replit_app.main: the quick calculator of the start page.  The page
   asks the data manager for the car models inside a try block and calls
   .iterrows() on the answer; LocalDataManager.get_german_cars answers with a
   list, which has no iterrows, so the bare except of lines 118 and 140 runs and
   the widgets are the fallback ones: a car model from a fixed list and the
   efficiency from a number input. *)

VehicleTypes == {"Elektrofahrzeug", "Dieselfahrzeug"}

(* models of the fallback selectboxes, "Custom" first *)
ElectricCarModels == {"Custom", "BMW iX3"}

DieselCarModels == {"Custom", "BMW 320d", "Porsche Macan Diesel"}

(* kWh/100km of the number input: its default and its maximum *)
ElectricEfficiencies == {IntR(21), IntR(45)}

(* L/100km of the number input: its minimum, its default and its maximum *)
DieselEfficiencies == {IntR(4), R(65, 10), IntR(12)}

(* km of the number input: its minimum and its default *)
AnnualKilometres == {IntR(5000), IntR(15000)}

GridSelections == {Str(Deutschland2025), Str(EUDurchschnitt)}

(* what the user has entered when a button is pressed *)
QuickInputs ==
    [vehicle_type : {"Elektrofahrzeug"}, car_model : ElectricCarModels,
     entered : ElectricEfficiencies, annual_km : AnnualKilometres,
     grid_factor : GridSelections]
    \cup
    [vehicle_type : {"Dieselfahrzeug"}, car_model : DieselCarModels,
     entered : DieselEfficiencies, annual_km : AnnualKilometres,
     grid_factor : {Str(Deutschland2025)}]

(* efficiency after the widgets: the kWh/100km entered, or
   efficiency = 235.2 / efficiency for a diesel *)
widget_efficiency(vehicle_type, entered) ==
    IF vehicle_type = "Elektrofahrzeug" THEN entered ELSE RDiv(R(2352, 10), entered)

(* annual_mileage = annual_km * 0.621371 *)
widget_annual_mileage(annual_km) == RMul(annual_km, R(621371, 1000000))

(* efficiency_miles = efficiency * 1.60934 *)
efficiency_miles(efficiency) == RMul(efficiency, R(160934, 100000))

(* efficiency_mpg = 235.2 / efficiency if car_model == "Custom" else efficiency *)
efficiency_mpg(car_model, efficiency) ==
    IF car_model = "Custom" THEN RDiv(R(2352, 10), efficiency) ELSE efficiency

(* the call of the button Schnellberechnung *)
quick_calculation_call(w) ==
    IF w.vehicle_type = "Elektrofahrzeug"
    THEN [op |-> "calculate_ev_emissions",
          args |-> [annual_mileage |-> widget_annual_mileage(w.annual_km),
                    kwh_per_100_miles |->
                        efficiency_miles(widget_efficiency(w.vehicle_type, w.entered)),
                    grid_mix |-> w.grid_factor,
                    years |-> DefaultYears]]
    ELSE [op |-> "calculate_diesel_emissions",
          args |-> [annual_mileage |-> widget_annual_mileage(w.annual_km),
                    mpg |-> efficiency_mpg(w.car_model,
                                widget_efficiency(w.vehicle_type, w.entered)),
                    years |-> DefaultYears]]

(* the call of the button Vollständige Lebenszyklus-Analyse *)
lifecycle_analysis_call(w) ==
    IF w.vehicle_type = "Elektrofahrzeug"
    THEN [op |-> "calculate_lifecycle_analysis",
          args |-> [annual_mileage |-> widget_annual_mileage(w.annual_km),
                    ev_efficiency |->
                        efficiency_miles(widget_efficiency(w.vehicle_type, w.entered)),
                    diesel_efficiency |-> IntR(35),
                    grid_mix_factor |-> w.grid_factor,
                    years |-> DefaultYears]]
    ELSE [op |-> "calculate_lifecycle_analysis",
          args |-> [annual_mileage |-> widget_annual_mileage(w.annual_km),
                    ev_efficiency |-> IntR(34),
                    diesel_efficiency |->
                        efficiency_mpg(w.car_model,
                            widget_efficiency(w.vehicle_type, w.entered)),
                    grid_mix_factor |-> w.grid_factor,
                    years |-> DefaultYears]]

(* st.session_state.quick_emissions and the impact score the page shows for it *)
quick_result(self, outcome) ==
    IF ~IsReturn(outcome) THEN outcome
    ELSE Return([quick_emissions |-> outcome.value,
                 impact_score |->
                    get_environmental_impact_score(self, outcome.value).value])

(* the characters of the texts of the selectboxes *)
Text(s) ==
    CASE s = "Custom" ->
            <<"C", "u", "s", "t", "o", "m">>
      [] s = "BMW iX3" ->
            <<"B", "M", "W", " ", "i", "X", "3">>
      [] s = "BMW 320d" ->
            <<"B", "M", "W", " ", "3", "2", "0", "d">>
      [] s = "Porsche Macan Diesel" ->
            <<"P", "o", "r", "s", "c", "h", "e", " ", "M", "a", "c", "a", "n", " ", "D", "i", "e", "s", "e", "l">>
      [] s = "Elektrofahrzeug" ->
            <<"E", "l", "e", "k", "t", "r", "o", "f", "a", "h", "r", "z", "e", "u", "g">>
      [] s = "Dieselfahrzeug" ->
            <<"D", "i", "e", "s", "e", "l", "f", "a", "h", "r", "z", "e", "u", "g">>

(* s.split(" ", 1) *)
split_once(s) ==
    IF \A i \in 1..Len(s) : s[i] # " " THEN <<s>>
    ELSE With([i \in {CHOOSE i \in 1..Len(s) :
                        s[i] = " " /\ \A j \in 1..(i - 1) : s[j] # " "} |->
         <<SubSeq(s, 1, i - 1), SubSeq(s, i + 1, Len(s))>>
         ])

(* str(uuid.uuid4()) of the sessions, cut to four characters *)
SessionIds == <<<<"1", "f", "0", "e">>, <<"9", "c", "4", "b">>>>

(* the arguments of db_manager.save_calculation after the quick calculation,
   ValueError when the car model has no blank to split at *)
quick_save_arguments(session_id, w, emissions) ==
    With([names \in {IF w.car_model # "Custom" THEN split_once(Text(w.car_model))
                     ELSE <<Text("Custom"), Text("Custom")>>} |->
    IF Len(names) # 2 THEN Raise("ValueError")
    ELSE Return([session_id |-> Str(session_id),
                 vehicle_type |-> Str(Text(w.vehicle_type)),
                 brand |-> Str(names[1]),
                 model |-> Str(names[2]),
                 annual_km |-> [type |-> "int", val |-> w.annual_km],
                 efficiency |-> Float(widget_efficiency(w.vehicle_type, w.entered)),
                 grid_region |-> w.grid_factor,
                 calculation_results |-> emissions])
    ])

(* db_manager.save_calculation with the arguments a *)
save_calculation_call(fs, a, now) ==
    LocalDataManager_save_calculation(fs, a.session_id, a.vehicle_type, a.brand, a.model,
        a.annual_km, a.efficiency, a.grid_region, a.calculation_results, now)

(* the try block of the quick calculation: the files afterwards; an exception
   is passed over *)
quick_save(fs, session_id, w, emissions, now) ==
    With([a \in {quick_save_arguments(session_id, w, emissions)} |->
    IF ~IsReturn(a) THEN fs
    ELSE
    With([saved \in {save_calculation_call(fs, a.value, now)} |->
    IF IsReturn(saved) THEN saved.value ELSE fs
    ])])

Threads == 1..NumThreads

IdleThread == [pc |-> "idle", call |-> None, result |-> None]

(* the sessions of the app that save into the one history file *)
Sessions == 1..NumSessions

IdleSession == [pc |-> "idle", entry |-> None, history |-> None]

(* the data directory before the first session: none of the files exists *)
NoFiles == [cars_file |-> NoFile, grid_file |-> NoFile, history_file |-> NoFile]

Init ==
    /\ calculator = EmissionCalculator
    /\ op = "idle"
    /\ args = <<>>
    /\ ret = None
    /\ threads = [t \in Threads |-> IdleThread]
    /\ data_handler = DataHandler
    /\ files = NoFiles
    /\ sessions = [s \in Sessions |-> IdleSession]

CalculateDieselEmissions ==
    /\ op = "idle"
    /\ \E a \in DieselArguments :
        /\ op' = "calculate_diesel_emissions"
        /\ args' = a
        /\ ret' = calculate_diesel_emissions(calculator, a.annual_mileage, a.mpg, a.years)
    /\ calculator' = SelfAfterCall(calculator, op', ret')
    /\ UNCHANGED <<threads, data_handler, files, sessions>>

CalculateDieselEmissionsFull ==
    /\ op = "idle"
    /\ \E a \in DieselFullArguments :
        /\ op' = "calculate_diesel_emissions_full"
        /\ args' = a
        /\ ret' = calculate_diesel_emissions_full(calculator, a.annual_mileage, a.mpg,
                      a.years, a.fuel_type, a.engine_size_l, a.emission_standard, a.turbo)
    /\ calculator' = SelfAfterCall(calculator, op', ret')
    /\ UNCHANGED <<threads, data_handler, files, sessions>>

CalculateEvEmissions ==
    /\ op = "idle"
    /\ \E a \in EvArguments :
        /\ op' = "calculate_ev_emissions"
        /\ args' = a
        /\ ret' = calculate_ev_emissions(calculator, a.annual_mileage,
                      a.kwh_per_100_miles, a.grid_mix, a.years)
    /\ calculator' = SelfAfterCall(calculator, op', ret')
    /\ UNCHANGED <<threads, data_handler, files, sessions>>

CalculateEvEmissionsFull ==
    /\ op = "idle"
    /\ \E a \in EvFullArguments :
        /\ op' = "calculate_ev_emissions_full"
        /\ args' = a
        /\ ret' = calculate_ev_emissions_full(calculator, a.annual_mileage,
                      a.kwh_per_100_miles, a.grid_mix, a.years, a.battery_kwh,
                      a.driving_pattern, a.charging_type, a.cold_weather)
    /\ calculator' = SelfAfterCall(calculator, op', ret')
    /\ UNCHANGED <<threads, data_handler, files, sessions>>

CalculateLifecycleAnalysis ==
    /\ op = "idle"
    /\ \E a \in LifecycleArguments :
        /\ op' = "calculate_lifecycle_analysis"
        /\ args' = a
        /\ ret' = calculate_lifecycle_analysis(calculator, a.annual_mileage,
                      a.ev_efficiency, a.diesel_efficiency, a.grid_mix_factor, a.years)
    /\ calculator' = SelfAfterCall(calculator, op', ret')
    /\ UNCHANGED <<threads, data_handler, files, sessions>>

GetGridDecarbonizationProjection ==
    /\ op = "idle"
    /\ \E a \in ProjectionArguments :
        /\ op' = "get_grid_decarbonization_projection"
        /\ args' = a
        /\ ret' = get_grid_decarbonization_projection(calculator, a.annual_mileage,
                      a.ev_efficiency, a.years)
    /\ calculator' = SelfAfterCall(calculator, op', ret')
    /\ UNCHANGED <<threads, data_handler, files, sessions>>

GetEnvironmentalImpactScore ==
    /\ \/ op = "idle"
       \/ /\ op \in {"calculate_diesel_emissions", "calculate_ev_emissions"}
          /\ IsReturn(ret)
    /\ \E emissions_data \in IF op = "idle" THEN ScoreRecords ELSE {ret.value} :
        /\ op' = "get_environmental_impact_score"
        /\ args' = [emissions_data |-> emissions_data]
        /\ ret' = get_environmental_impact_score(calculator, emissions_data)
    /\ calculator' = SelfAfterCall(calculator, op', ret')
    /\ UNCHANGED <<threads, data_handler, files, sessions>>

(* The buttons of the start page.  args keeps what the user entered and the
   call the page made on the calculator.  The quick calculation then saves an
   entry into the calculation history inside a try block; without a history
   file the save raises and is passed over. *)
QuickCalculation ==
    /\ op = "idle"
    /\ \E w \in QuickInputs :
        \E outcome \in {Call(calculator, quick_calculation_call(w).op,
                              quick_calculation_call(w).args)} :
            /\ args' = [entered |-> w, call |-> quick_calculation_call(w)]
            /\ ret' = quick_result(calculator, outcome)
            /\ calculator' = SelfAfterCall(calculator, quick_calculation_call(w).op, outcome)
            /\ \E now \in ClockReadings :
                    files' = IF IsReturn(outcome)
                             THEN quick_save(files, SessionIds[1], w, outcome.value, now)
                             ELSE files
    /\ op' = "quick_calculation"
    /\ UNCHANGED <<threads, data_handler, sessions>>

FullLifecycleAnalysis ==
    /\ op = "idle"
    /\ \E w \in QuickInputs :
        \E outcome \in {Call(calculator, lifecycle_analysis_call(w).op,
                              lifecycle_analysis_call(w).args)} :
            /\ args' = [entered |-> w, call |-> lifecycle_analysis_call(w)]
            /\ ret' = outcome
            /\ calculator' = SelfAfterCall(calculator, lifecycle_analysis_call(w).op, outcome)
    /\ op' = "full_lifecycle_analysis"
    /\ UNCHANGED <<threads, data_handler, files, sessions>>

NextInteraction ==
    /\ op # "idle"
    /\ op' = "idle"
    /\ args' = <<>>
    /\ ret' = None
    /\ UNCHANGED <<calculator, threads, data_handler, files, sessions>>

(* the caller assigns an item of a lifecycle_breakdown it was returned, and
   drops the result *)
MutateReturnedBreakdown ==
    /\ BreakdownTables(op) # {}
    /\ IsReturn(ret)
    /\ \E vehicle \in BreakdownTables(op) :
        \E breakdown \in {DictSet(ReturnedBreakdown(op, ret.value, vehicle),
                                  "total_manufacturing", IntR(0))} :
            /\ args' = [vehicle |-> vehicle, key |-> "total_manufacturing"]
            /\ calculator' = StoreBreakdown(calculator, vehicle, breakdown)
    /\ op' = "caller_mutation"
    /\ ret' = None
    /\ UNCHANGED <<threads, data_handler, files, sessions>>

Next ==
    \/ CalculateDieselEmissions
    \/ CalculateDieselEmissionsFull
    \/ CalculateEvEmissions
    \/ CalculateEvEmissionsFull
    \/ CalculateLifecycleAnalysis
    \/ GetEnvironmentalImpactScore
    \/ QuickCalculation
    \/ FullLifecycleAnalysis
    \/ MutateReturnedBreakdown
    \/ NextInteraction
    \/ GetGridDecarbonizationProjection

Spec == Init /\ [][Next]_vars

-----------------------------------------------------------------------------
(* Calls in parallel.  Threads share the one calculator of the module and call
   it without any lock.  A call is two steps: ThreadCalls runs the body up to
   its return statement, with the item assignments on lifecycle_breakdown made
   in the objects copy() returned, and ThreadReturns hands the result to the
   thread, which reads the lifecycle_breakdown of the result through its
   reference.  Between the two steps the other threads run. *)

(* the items a reader finds in a lifecycle_breakdown: those of the dict of the
   vehicle when the object copy() returned is that dict, its own otherwise *)
BreakdownSeen(self, vehicle, breakdown) ==
    IF copy(vehicle) = vehicle THEN self.lifecycle_emissions[vehicle] ELSE breakdown

(* the outcome of operation o as its caller reads it *)
ResultSeen(self, o, outcome) ==
    IF ~IsReturn(outcome) \/ BreakdownTables(o) = {} THEN outcome
    ELSE IF o = "calculate_lifecycle_analysis"
    THEN Return([outcome.value EXCEPT
            !.ev_results.lifecycle_breakdown = BreakdownSeen(self, "electric", @),
            !.diesel_results.lifecycle_breakdown = BreakdownSeen(self, "diesel", @)])
    ELSE Return([outcome.value EXCEPT
            !.lifecycle_breakdown =
                BreakdownSeen(self, CHOOSE vehicle \in BreakdownTables(o) : TRUE, @)])

(* the calls the threads make: every operation, and calculate_diesel_emissions
   with two mileages *)
ParallelCalls ==
    {[op |-> "calculate_diesel_emissions",
      args |-> [annual_mileage |-> IntR(12000), mpg |-> IntR(30), years |-> DefaultYears]],
     [op |-> "calculate_diesel_emissions",
      args |-> [annual_mileage |-> IntR(6000), mpg |-> IntR(30), years |-> 1]],
     [op |-> "calculate_diesel_emissions_full",
      args |-> [annual_mileage |-> IntR(12000), mpg |-> IntR(30), years |-> 1]
               @@ DieselDefaults],
     [op |-> "calculate_ev_emissions",
      args |-> [annual_mileage |-> IntR(12000), kwh_per_100_miles |-> IntR(34),
                grid_mix |-> Str(Deutschland2025), years |-> DefaultYears]],
     [op |-> "calculate_ev_emissions_full",
      args |-> [annual_mileage |-> IntR(12000), kwh_per_100_miles |-> IntR(34),
                grid_mix |-> Str(Polen), years |-> 1] @@ EvDefaults],
     [op |-> "calculate_lifecycle_analysis",
      args |-> [annual_mileage |-> IntR(6000), ev_efficiency |-> IntR(34),
                diesel_efficiency |-> IntR(30),
                grid_mix_factor |-> Str(Deutschland2025), years |-> 1]],
     [op |-> "get_grid_decarbonization_projection",
      args |-> [annual_mileage |-> IntR(12000), ev_efficiency |-> IntR(34), years |-> 1]],
     [op |-> "get_environmental_impact_score",
      args |-> [emissions_data |-> [co2_annual |-> IntR(4000), nox_annual |-> IntR(120),
                                    pm25_annual |-> IntR(3), so2_annual |-> R(24, 10)]]]}

ThreadCalls(t) ==
    /\ threads[t].pc = "idle"
    /\ \E c \in ParallelCalls :
        \E outcome \in {Call(calculator, c.op, c.args)} :
            /\ threads' = [threads EXCEPT
                    ![t] = [pc |-> "running", call |-> c, result |-> outcome]]
            /\ calculator' = SelfAfterCall(calculator, c.op, outcome)
    /\ UNCHANGED <<op, args, ret, data_handler, files, sessions>>

ThreadReturns(t) ==
    /\ threads[t].pc = "running"
    /\ threads' = [threads EXCEPT
            ![t].pc = "returned",
            ![t].result = ResultSeen(calculator, threads[t].call.op, @)]
    /\ UNCHANGED <<calculator, op, args, ret, data_handler, files, sessions>>

(* the thread assigns an item of a lifecycle_breakdown it was returned, and
   drops the result *)
ThreadMutatesReturnedBreakdown(t) ==
    /\ threads[t].pc = "returned"
    /\ IsReturn(threads[t].result)
    /\ \E vehicle \in BreakdownTables(threads[t].call.op) :
        \E breakdown \in {DictSet(ReturnedBreakdown(threads[t].call.op,
                                      threads[t].result.value, vehicle),
                                  "total_manufacturing", IntR(0))} :
            calculator' = StoreBreakdown(calculator, vehicle, breakdown)
    /\ threads' = [threads EXCEPT ![t] = IdleThread]
    /\ UNCHANGED <<op, args, ret, data_handler, files, sessions>>

ThreadNext(t) ==
    /\ threads[t].pc = "returned"
    /\ threads' = [threads EXCEPT ![t] = IdleThread]
    /\ UNCHANGED <<calculator, op, args, ret, data_handler, files, sessions>>

NextParallel ==
    \E t \in Threads :
        \/ ThreadCalls(t)
        \/ ThreadReturns(t)
        \/ ThreadMutatesReturnedBreakdown(t)
        \/ ThreadNext(t)

SpecParallel == Init /\ [][NextParallel]_vars

-----------------------------------------------------------------------------
(* The DataHandler of a session: the calls of the pages on it *)

(* a result dict with the keys that get_calculations_df reads; no function of
   the calculator returns one *)
ResultWithTotalLifetime ==
    [co2_annual |-> IntR(4000), co2_lifetime |-> IntR(60000),
     total_lifetime |-> IntR(68000)]

(* results of the four emission functions of the calculator *)
CalculatorResults(self) ==
    {[calculation_data |->
            calculate_ev_emissions(self, IntR(12000), IntR(34), Str(Deutschland2025),
                                   DefaultYears).value,
      vehicle_type |-> Str(ElectricVehicle)],
     [calculation_data |->
            calculate_ev_emissions_full(self, IntR(12000), IntR(34), Str(Deutschland2025),
                DefaultYears, EvDefaults.battery_kwh, EvDefaults.driving_pattern,
                EvDefaults.charging_type, EvDefaults.cold_weather).value,
      vehicle_type |-> Str(ElectricVehicle)],
     [calculation_data |->
            calculate_diesel_emissions(self, IntR(12000), IntR(30), DefaultYears).value,
      vehicle_type |-> Str(DieselVehicle)],
     [calculation_data |->
            calculate_diesel_emissions_full(self, IntR(12000), IntR(30), DefaultYears,
                DieselDefaults.fuel_type, DieselDefaults.engine_size_l,
                DieselDefaults.emission_standard, DieselDefaults.turbo).value,
      vehicle_type |-> Str(DieselVehicle)]}

(* what save_calculation is called with *)
StoredResults(self) ==
    CalculatorResults(self)
    \cup {[calculation_data |-> ResultWithTotalLifetime,
           vehicle_type |-> Str(ElectricVehicle)]}

(* the readings of the clock that the records of a DataHandler are stamped with *)
RecordClockReadings == {0, MaxTick}

DataHandlerSaveCalculation ==
    /\ op = "idle"
    /\ Len(data_handler.calculations_history) < MaxRecords
    /\ \E r \in StoredResults(calculator), now \in RecordClockReadings :
        \E saved \in {DataHandler_save_calculation(data_handler, r.calculation_data,
                            r.vehicle_type,
                            [annual_mileage |-> IntR(12000)], now)} :
            /\ args' = r
            /\ data_handler' = saved.self
            /\ ret' = saved.outcome
    /\ op' = "DataHandler.save_calculation"
    /\ UNCHANGED <<calculator, threads, files, sessions>>

(* the button Calculate Emissions of pages/1_Vehicle_input.py: the call of the
   calculator, the save and the display of the results *)
VehicleInputCalculate ==
    /\ op = "idle"
    /\ Len(data_handler.calculations_history) < MaxRecords
    /\ \E w \in VehicleInputs, now \in RecordClockReadings :
        \E results \in {vehicle_input_results(calculator, w)} :
            /\ args' = w
            /\ calculator' = SelfAfterCall(calculator,
                                IF w.vehicle_type = ElectricVehicle
                                THEN "calculate_ev_emissions"
                                ELSE "calculate_diesel_emissions", results)
            /\ IF IsReturn(results)
               THEN /\ data_handler' =
                            DataHandler_save_calculation(data_handler, results.value,
                                Str(w.vehicle_type), vehicle_input_parameters(w), now).self
                    /\ ret' = vehicle_input_display(calculator, results.value)
               ELSE /\ data_handler' = data_handler
                    /\ ret' = results
    /\ op' = "vehicle_input_calculate"
    /\ UNCHANGED <<threads, files, sessions>>

GetCalculationsDf ==
    /\ op = "idle"
    /\ op' = "get_calculations_df"
    /\ args' = <<>>
    /\ ret' = get_calculations_df(data_handler)
    /\ UNCHANGED <<calculator, threads, data_handler, files, sessions>>

ExportToCsv ==
    /\ op = "idle"
    /\ op' = "export_to_csv"
    /\ args' = <<>>
    /\ ret' = export_to_csv(data_handler)
    /\ UNCHANGED <<calculator, threads, data_handler, files, sessions>>

GetSummaryStatistics ==
    /\ op = "idle"
    /\ op' = "get_summary_statistics"
    /\ args' = <<>>
    /\ ret' = get_summary_statistics(data_handler)
    /\ UNCHANGED <<calculator, threads, data_handler, files, sessions>>

ClearHistory ==
    /\ op = "idle"
    /\ data_handler.calculations_history # <<>>
    /\ op' = "clear_history"
    /\ args' = <<>>
    /\ data_handler' = clear_history(data_handler)
    /\ ret' = Return(None)
    /\ UNCHANGED <<calculator, threads, files, sessions>>

NextDataHandler ==
    \/ DataHandlerSaveCalculation
    \/ VehicleInputCalculate
    \/ GetCalculationsDf
    \/ ExportToCsv
    \/ GetSummaryStatistics
    \/ ClearHistory
    \/ NextInteraction

SpecDataHandler == Init /\ [][NextDataHandler]_vars

-----------------------------------------------------------------------------
(* The LocalDataManager of a session: the start of a session and the calls of
   the start page, one after the other *)

(* what the user has entered in the quick calculations that are saved *)
SavedInputs ==
    <<[vehicle_type |-> "Elektrofahrzeug", car_model |-> "BMW iX3", entered |-> IntR(21),
       annual_km |-> IntR(15000), grid_factor |-> Str(Deutschland2025)],
      [vehicle_type |-> "Dieselfahrzeug", car_model |-> "Porsche Macan Diesel",
       entered |-> R(65, 10), annual_km |-> IntR(15000),
       grid_factor |-> Str(Deutschland2025)]>>

(* the arguments of save_calculation in the session s for what was entered *)
SaveArgumentsOf(self, s, w) ==
    quick_save_arguments(SessionIds[s], w,
        Call(self, quick_calculation_call(w).op, quick_calculation_call(w).args).value).value

(* every session saves the electric car, the first session the diesel too *)
SaveArguments(self) ==
    {SaveArgumentsOf(self, s, SavedInputs[1]) : s \in 1..Len(SessionIds)}
    \cup {SaveArgumentsOf(self, 1, SavedInputs[2])}

(* a LocalDataManager has been constructed: its construction leaves every file
   existing and nothing removes a file *)
Constructed == \A file \in DOMAIN files : files[file].exists

(* the first lines of main for a new session: LocalDataManager() and
   initialize_sample_data() *)
SessionStart ==
    /\ op = "idle"
    /\ op' = "session_start"
    /\ args' = [existing |-> {file \in DOMAIN files : files[file].exists}]
    /\ files' = initialize_sample_data(LocalDataManager(files))
    /\ ret' = Return(None)
    /\ UNCHANGED <<calculator, threads, data_handler, sessions>>

GetGermanCars ==
    /\ op = "idle"
    /\ Constructed
    /\ \E vehicle_type \in {None, Str(<<"e", "l", "e", "c", "t", "r", "i", "c">>),
                            Str(<<"d", "i", "e", "s", "e", "l">>)} :
        /\ args' = [vehicle_type |-> vehicle_type]
        /\ ret' = get_german_cars(files, vehicle_type)
    /\ op' = "get_german_cars"
    /\ UNCHANGED <<calculator, threads, data_handler, files, sessions>>

(* the entries of the history file *)
HistoryEntries(fs) == json_load(fs.history_file).value.val

SaveCalculation ==
    /\ op = "idle"
    /\ Constructed
    /\ Len(HistoryEntries(files)) < MaxEntries
    /\ \E a \in SaveArguments(calculator), now \in ClockReadings :
        \E saved \in {save_calculation_call(files, a, now)} :
            /\ args' = [call |-> a, now |-> now]
            /\ files' = IF IsReturn(saved) THEN saved.value ELSE files
            /\ ret' = IF IsReturn(saved) THEN Return(None) ELSE saved
    /\ op' = "LocalDataManager.save_calculation"
    /\ UNCHANGED <<calculator, threads, data_handler, sessions>>

(* limit: none, one, and the default of the method *)
Limits == {0, 1, DefaultLimit}

GetCalculationHistory ==
    /\ op = "idle"
    /\ Constructed
    /\ \E session_id \in {None} \cup {Str(SessionIds[s]) : s \in 1..Len(SessionIds)},
          limit \in Limits :
        /\ args' = [session_id |-> session_id, limit |-> limit]
        /\ ret' = get_calculation_history(files, session_id, limit)
    /\ op' = "get_calculation_history"
    /\ UNCHANGED <<calculator, threads, data_handler, files, sessions>>

NextLocalData ==
    \/ SessionStart
    \/ GetGermanCars
    \/ SaveCalculation
    \/ GetCalculationHistory
    \/ NextInteraction

SpecLocalData == Init /\ [][NextLocalData]_vars

-----------------------------------------------------------------------------
(* Sessions that save at the same time.  Every session has its own
   LocalDataManager on the one data directory and runs save_calculation once;
   the steps of the sessions interleave: the entry and json.load, the append,
   and seek(0) with json.dump. *)

InitConcurrentSave ==
    /\ calculator = EmissionCalculator
    /\ op = "idle"
    /\ args = <<>>
    /\ ret = None
    /\ threads = [t \in Threads |-> IdleThread]
    /\ data_handler = DataHandler
    /\ files = LocalDataManager(NoFiles)
    /\ sessions = [s \in Sessions |-> IdleSession]

(* the session id of the session s *)
SessionIdOf(s) == SessionIds[((s - 1) % Len(SessionIds)) + 1]

SessionLoads(s) ==
    /\ sessions[s].pc = "idle"
    /\ \E i \in 1..Len(SavedInputs), now \in ClockReadings :
        \E a \in {quick_save_arguments(SessionIdOf(s), SavedInputs[i],
                    Call(calculator, quick_calculation_call(SavedInputs[i]).op,
                         quick_calculation_call(SavedInputs[i]).args).value).value} :
        \E entry \in {save_calculation_entry(a.session_id, a.vehicle_type, a.brand,
                        a.model, a.annual_km, a.efficiency, a.grid_region,
                        a.calculation_results, now)},
           loaded \in {json_load(files.history_file)} :
            sessions' = [sessions EXCEPT ![s] =
                IF IsReturn(entry) /\ IsReturn(loaded)
                THEN [pc |-> "loaded", entry |-> entry.value, history |-> loaded.value]
                ELSE [pc |-> "raised", entry |-> None, history |-> None]]
    /\ UNCHANGED <<calculator, op, args, ret, threads, data_handler, files>>

SessionAppends(s) ==
    /\ sessions[s].pc = "loaded"
    /\ \E appended \in {save_calculation_append(sessions[s].history, sessions[s].entry)} :
        sessions' = [sessions EXCEPT ![s] =
            IF IsReturn(appended)
            THEN [@ EXCEPT !.pc = "appended", !.history = appended.value]
            ELSE [pc |-> "raised", entry |-> None, history |-> None]]
    /\ UNCHANGED <<calculator, op, args, ret, threads, data_handler, files>>

SessionWritesBack(s) ==
    /\ sessions[s].pc = "appended"
    /\ files' = [files EXCEPT !.history_file =
                    save_calculation_write(files.history_file, sessions[s].history)]
    /\ sessions' = [sessions EXCEPT ![s] = [@ EXCEPT !.pc = "saved", !.history = None]]
    /\ UNCHANGED <<calculator, op, args, ret, threads, data_handler>>

NextConcurrentSave ==
    \E s \in Sessions :
        \/ SessionLoads(s)
        \/ SessionAppends(s)
        \/ SessionWritesBack(s)

SpecConcurrentSave == InitConcurrentSave /\ [][NextConcurrentSave]_vars

-----------------------------------------------------------------------------
(* Properties *)

Positive(x) == x.s > 0

(* the names of the regions as _grid_factors_lc keys them *)
KnownKeys == {lower(strip(k)) : k \in DOMAIN grid_factors}

(* g is None, or a string that names no region after strip() and lower() *)
IsUnknownGrid(g) ==
    \/ g.type = "NoneType"
    \/ g.type = "str" /\ lower(strip(g.val)) \notin KnownKeys

(* C1: with a grid_mix that is None or a string naming no region,
   calculate_ev_emissions and calculate_ev_emissions_full raise nothing, use the
   factor 0.366 of "Deutschland 2025", and return the very record the same call
   with "Deutschland 2025" returns. *)
C1_UnknownGridUsesDefault ==
    /\ (op = "calculate_ev_emissions" /\ IsUnknownGrid(args.grid_mix)) =>
            /\ IsReturn(ret)
            /\ ret.value.grid_factor = R(366, 1000)
            /\ ret = calculate_ev_emissions(calculator, args.annual_mileage,
                         args.kwh_per_100_miles, Str(Deutschland2025), args.years)
    /\ (op = "calculate_ev_emissions_full" /\ IsUnknownGrid(args.grid_mix)) =>
            /\ IsReturn(ret)
            /\ ret.value.grid_factor = R(366, 1000)
            /\ ret = calculate_ev_emissions_full(calculator, args.annual_mileage,
                         args.kwh_per_100_miles, Str(Deutschland2025), args.years,
                         args.battery_kwh, args.driving_pattern, args.charging_type,
                         args.cold_weather)

C1_Witness ==
    /\ op = "calculate_ev_emissions"
    /\ args.grid_mix = Str(NonexistentRegion)
    /\ args.annual_mileage = IntR(12000)
    /\ args.kwh_per_100_miles = IntR(34)
    /\ IsReturn(ret)
    /\ ret.value.co2_annual = R(206193, 125)

(* s spells the region name k: k as written, in lower or in upper case, with at
   most MaxPad whitespace characters before and after *)
Spells(s, k) ==
    \E c \in {k, lower(k), upper(k)}, l \in 0..MaxPad, t \in 0..MaxPad :
        s = Pad(l) \o c \o Pad(t)

(* C2: calculate_ev_emissions reports grid_factors[R] as grid_factor for every
   spelling of a region name R, whatever the letter case and the whitespace
   around it, and reports a numeric grid_mix unchanged. *)
C2_RegionLookup ==
    op = "calculate_ev_emissions" =>
        /\ \A k \in DOMAIN grid_factors :
                (args.grid_mix.type = "str" /\ Spells(args.grid_mix.val, k)) =>
                    IsReturn(ret) /\ ret.value.grid_factor = grid_factors[k]
        /\ args.grid_mix.type \in {"int", "float"} =>
                IsReturn(ret) /\ ret.value.grid_factor = args.grid_mix.val

C2_Witness ==
    /\ op = "calculate_ev_emissions"
    /\ args.grid_mix = Str(Pad(MaxPad) \o upper(Polen) \o Pad(MaxPad))
    /\ IsReturn(ret)
    /\ ret.value.grid_factor = R(69, 100)

(* C3: calculate_diesel_emissions and calculate_diesel_emissions_full raise
   InvalidParameter, and return nothing, whenever mpg is zero or negative. *)
C3_InvalidMpgRejected ==
    (/\ op \in {"calculate_diesel_emissions", "calculate_diesel_emissions_full"}
     /\ RLe(args.mpg, IntR(0))) =>
        ret.kind = "raise" /\ ret.exc = "InvalidParameter"

(* the arguments of the call are invalid: a negative mileage, an efficiency that
   is not positive, or years below 1 *)
InvalidArguments ==
    \/ RLt(args.annual_mileage, IntR(0))
    \/ args.years < 1
    \/ op = "calculate_ev_emissions" /\ RLe(args.kwh_per_100_miles, IntR(0))
    \/ /\ op \in {"calculate_lifecycle_analysis", "get_grid_decarbonization_projection"}
       /\ RLe(args.ev_efficiency, IntR(0))
    \/ op = "calculate_lifecycle_analysis" /\ RLe(args.diesel_efficiency, IntR(0))

(* C4: calculate_ev_emissions, calculate_lifecycle_analysis and
   get_grid_decarbonization_projection raise a validation error, and return
   nothing, when the mileage is negative, an efficiency is not positive or years
   is below 1. *)
C4_InvalidArgumentsRejected ==
    (/\ op \in {"calculate_ev_emissions", "calculate_lifecycle_analysis",
                "get_grid_decarbonization_projection"}
     /\ InvalidArguments) =>
        ret.kind = "raise" /\ ret.exc = "InvalidParameter"

(* C5: calculate_lifecycle_analysis returns carbon_payback_years with
   carbon_payback_years * annual_savings = manufacturing_difference when
   annual_savings (diesel minus EV annual CO2) is positive, and float("inf") when
   it is zero or negative; it raises nothing unless diesel_efficiency is 0, and
   for positive mileage, efficiencies and years the payback is never negative. *)
C5_CarbonPayback ==
    op = "calculate_lifecycle_analysis" =>
        /\ ~RIsZero(args.diesel_efficiency) => IsReturn(ret)
        /\ IsReturn(ret) =>
            /\ ret.value.annual_savings =
                    RSub(ret.value.diesel_results.co2_annual,
                         ret.value.ev_results.co2_annual)
            /\ ret.value.manufacturing_difference =
                    RSub(ret.value.ev_results.manufacturing_emissions,
                         ret.value.diesel_results.manufacturing_emissions)
            /\ Positive(ret.value.annual_savings) =>
                    /\ IsFinite(ret.value.carbon_payback_years)
                    /\ REq(RMul(ret.value.carbon_payback_years, ret.value.annual_savings),
                           ret.value.manufacturing_difference)
            /\ ~Positive(ret.value.annual_savings) =>
                    ret.value.carbon_payback_years = inf
        /\ (/\ Positive(args.annual_mileage) /\ Positive(args.ev_efficiency)
            /\ Positive(args.diesel_efficiency) /\ args.years >= 1) =>
                /\ IsReturn(ret)
                /\ \/ ret.value.carbon_payback_years = inf
                   \/ ret.value.carbon_payback_years.s >= 0

(* the EV on a grid of 2 kg/kWh emits more than the diesel: no payback *)
C5_Witness ==
    /\ op = "calculate_lifecycle_analysis"
    /\ args.annual_mileage = IntR(12000)
    /\ args.ev_efficiency = IntR(34)
    /\ args.diesel_efficiency = IntR(30)
    /\ args.grid_mix_factor = [type |-> "int", val |-> IntR(2)]
    /\ IsReturn(ret)
    /\ RLt(ret.value.annual_savings, IntR(0))
    /\ ret.value.carbon_payback_years = inf

(* C6: for positive mileage and mpg calculate_diesel_emissions returns
   fuel_annual_liters = (annual_mileage / mpg) * 3.78541, co2_annual_direct =
   liters * 2.68, co2_annual_upstream = liters * 1.35 and co2_annual = their sum;
   for 12000 miles at 30 mpg that is 6102.08092. *)
C6_DieselFormula ==
    (/\ op = "calculate_diesel_emissions"
     /\ Positive(args.annual_mileage) /\ Positive(args.mpg)) =>
        /\ IsReturn(ret)
        /\ ret.value.fuel_annual_liters =
                RMul(RDiv(args.annual_mileage, args.mpg), R(378541, 100000))
        /\ ret.value.co2_annual_direct =
                RMul(ret.value.fuel_annual_liters, R(268, 100))
        /\ ret.value.co2_annual_upstream =
                RMul(ret.value.fuel_annual_liters, R(135, 100))
        /\ ret.value.co2_annual =
                RAdd(ret.value.co2_annual_direct, ret.value.co2_annual_upstream)
        /\ (args.annual_mileage = IntR(12000) /\ args.mpg = IntR(30)) =>
                /\ ret.value.co2_annual =
                        RAdd(RMul(RMul(RDiv(IntR(12000), IntR(30)), R(378541, 100000)),
                                  R(268, 100)),
                             RMul(RMul(RDiv(IntR(12000), IntR(30)), R(378541, 100000)),
                                  R(135, 100)))
                /\ ret.value.co2_annual = R(152552023, 25000)

C6_Witness ==
    /\ op = "calculate_diesel_emissions"
    /\ args.annual_mileage = IntR(12000)
    /\ args.mpg = IntR(30)
    /\ IsReturn(ret)
    /\ ret.value.co2_annual = R(152552023, 25000)

(* C7: calculate_ev_emissions returns electricity_annual_kwh = (annual_mileage /
   100) * kwh_per_100_miles and co2_annual = kwh * grid_factor * 1.05 + kwh * 0.02,
   which is the sum of the returned co2_annual_direct and co2_annual_upstream; for
   12000 miles, 34 kWh per 100 miles and the factor 0.366 that is 1649.544. *)
C7_EvFormula ==
    op = "calculate_ev_emissions" =>
        /\ IsReturn(ret)
        /\ ret.value.electricity_annual_kwh =
                RMul(RDiv(args.annual_mileage, IntR(100)), args.kwh_per_100_miles)
        /\ ret.value.co2_annual =
                RAdd(RMul(RMul(ret.value.electricity_annual_kwh, ret.value.grid_factor),
                          R(105, 100)),
                     RMul(ret.value.electricity_annual_kwh, R(2, 100)))
        /\ ret.value.co2_annual =
                RAdd(ret.value.co2_annual_direct, ret.value.co2_annual_upstream)
        /\ (/\ args.annual_mileage = IntR(12000)
            /\ args.kwh_per_100_miles = IntR(34)
            /\ ret.value.grid_factor = R(366, 1000)) =>
                ret.value.co2_annual = R(206193, 125)

C7_Witness ==
    /\ op = "calculate_ev_emissions"
    /\ args.annual_mileage = IntR(12000)
    /\ args.kwh_per_100_miles = IntR(34)
    /\ args.grid_mix = Float(R(366, 1000))
    /\ IsReturn(ret)
    /\ ret.value.co2_annual_direct = R(979965, 625)
    /\ ret.value.co2_annual_upstream = R(408, 5)
    /\ ret.value.co2_annual = R(206193, 125)

(* C8: every record the four emission functions return has co2_lifetime =
   co2_annual * years, total_lifecycle = co2_lifetime + manufacturing_emissions,
   and in lifecycle_breakdown total_operation = operation_direct +
   operation_upstream = co2_lifetime and total_manufacturing =
   manufacturing_emissions. *)
C8_LifetimeTotals ==
    (/\ op \in {"calculate_diesel_emissions", "calculate_diesel_emissions_full",
                "calculate_ev_emissions", "calculate_ev_emissions_full"}
     /\ IsReturn(ret)) =>
        /\ ret.value.co2_lifetime = RMul(ret.value.co2_annual, IntR(args.years))
        /\ ret.value.total_lifecycle =
                RAdd(ret.value.co2_lifetime, ret.value.manufacturing_emissions)
        /\ REq(ret.value.lifecycle_breakdown.total_operation,
               RAdd(ret.value.lifecycle_breakdown.operation_direct,
                    ret.value.lifecycle_breakdown.operation_upstream))
        /\ ret.value.lifecycle_breakdown.total_operation = ret.value.co2_lifetime
        /\ ret.value.lifecycle_breakdown.total_manufacturing =
                ret.value.manufacturing_emissions

C8_Witness ==
    /\ op = "calculate_diesel_emissions"
    /\ args.annual_mileage = IntR(12000)
    /\ args.mpg = IntR(30)
    /\ args.years = DefaultYears
    /\ IsReturn(ret)
    /\ ret.value.co2_lifetime = R(457656069, 5000)
    /\ ret.value.lifecycle_breakdown.total_operation = R(457656069, 5000)
    /\ ret.value.lifecycle_breakdown.operation_upstream # ret.value.co2_annual_upstream
    /\ ret.value.total_lifecycle = R(490656069, 5000)

(* C9: get_environmental_impact_score returns a number between 0 and 100
   inclusive for every emissions record. *)
C9_ScoreInRange ==
    op = "get_environmental_impact_score" =>
        /\ IsReturn(ret)
        /\ RLe(IntR(0), ret.value)
        /\ RLe(ret.value, IntR(100))

(* 0.4 * min(100, co2/8000*100) + 0.2 * min(100, nox/120*100)
   + 0.3 * min(100, pm25/6*100) + 0.1 * min(100, so2/2.4*100) *)
WeightedSubScores(e) ==
    RAdd(RAdd(RAdd(
        RMul(R(4, 10), RMin(IntR(100), RMul(RDiv(e.co2_annual, IntR(8000)), IntR(100)))),
        RMul(R(2, 10), RMin(IntR(100), RMul(RDiv(e.nox_annual, IntR(120)), IntR(100))))),
        RMul(R(3, 10), RMin(IntR(100), RMul(RDiv(e.pm25_annual, IntR(6)), IntR(100))))),
        RMul(R(1, 10), RMin(IntR(100), RMul(RDiv(e.so2_annual, R(24, 10)), IntR(100)))))

(* C10: get_environmental_impact_score is the weighted sum of the four clamped
   sub-scores rounded to one decimal: a multiple of 1/10 at most 1/20 away from
   the sum; for co2_annual = 8000 and no other pollutant it is exactly 40. *)
C10_ScoreFormula ==
    op = "get_environmental_impact_score" =>
        /\ IsReturn(ret)
        /\ RMul(ret.value, IntR(10)).d = <<1>>
        /\ RLe(RSub(ret.value, WeightedSubScores(args.emissions_data)), R(1, 20))
        /\ RLe(RSub(WeightedSubScores(args.emissions_data), ret.value), R(1, 20))
        /\ (/\ args.emissions_data.co2_annual = IntR(8000)
            /\ RIsZero(args.emissions_data.nox_annual)
            /\ RIsZero(args.emissions_data.pm25_annual)
            /\ RIsZero(args.emissions_data.so2_annual)) =>
                ret.value = IntR(40)

C10_Witness ==
    /\ op = "get_environmental_impact_score"
    /\ args.emissions_data =
            [co2_annual |-> IntR(8000), nox_annual |-> IntR(0),
             pm25_annual |-> IntR(0), so2_annual |-> IntR(0)]
    /\ ret = Return(IntR(40))

(* annual_mileage * ev_efficiency / 100 of the projection call *)
ProjectionAnnualKwh == RMul(args.annual_mileage, RDiv(args.ev_efficiency, IntR(100)))

(* C11: get_grid_decarbonization_projection with years = 1 raises nothing and
   returns, for every region of grid_factors, exactly one value: annual_mileage *
   ev_efficiency / 100 * the current factor of the region. *)
C11_SingleYearProjection ==
    (op = "get_grid_decarbonization_projection" /\ args.years = 1) =>
        /\ IsReturn(ret)
        /\ DOMAIN ret.value = DOMAIN grid_factors
        /\ \A g \in DOMAIN grid_factors :
                /\ Len(ret.value[g]) = 1
                /\ REq(ret.value[g][1], RMul(ProjectionAnnualKwh, grid_factors[g]))

C11_Witness ==
    /\ op = "get_grid_decarbonization_projection"
    /\ args.years = 1
    /\ args.annual_mileage = IntR(12000)
    /\ args.ev_efficiency = IntR(34)
    /\ IsReturn(ret)
    /\ ret.value[Deutschland2025] = <<R(37332, 25)>>

(* C12: for years N >= 2 the projection has one sequence of exactly N values per
   region; the value of year y is annual_kwh * factor * (1 - 0.6 * (y - 1) / (N -
   1)), so the first is the full current intensity and the last exactly 40% of
   it; for positive mileage and efficiency every sequence is strictly decreasing. *)
C12_LinearProjection ==
    (op = "get_grid_decarbonization_projection" /\ args.years >= 2) =>
        /\ IsReturn(ret)
        /\ DOMAIN ret.value = DOMAIN grid_factors
        /\ \A g \in DOMAIN grid_factors :
            /\ Len(ret.value[g]) = args.years
            /\ \A y \in 1..args.years :
                    REq(RMul(ret.value[g][y], IntR(args.years - 1)),
                        RMul(RMul(ProjectionAnnualKwh, grid_factors[g]),
                             RSub(IntR(args.years - 1), RMul(R(6, 10), IntR(y - 1)))))
            /\ REq(ret.value[g][1], RMul(ProjectionAnnualKwh, grid_factors[g]))
            /\ REq(ret.value[g][args.years],
                   RMul(R(4, 10), RMul(ProjectionAnnualKwh, grid_factors[g])))
            /\ (Positive(args.annual_mileage) /\ Positive(args.ev_efficiency)) =>
                    \A y \in 1..(args.years - 1) :
                        RLt(ret.value[g][y + 1], ret.value[g][y])

C12_Witness ==
    /\ op = "get_grid_decarbonization_projection"
    /\ args.years = DefaultYears
    /\ args.annual_mileage = IntR(12000)
    /\ args.ev_efficiency = IntR(34)
    /\ IsReturn(ret)
    /\ Len(ret.value[Polen]) = DefaultYears
    /\ ret.value[Polen][1] = R(14076, 5)
    /\ ret.value[Polen][DefaultYears] = R(28152, 25)

(* C13: whatever calls were made, and whatever the caller assigned in a
   lifecycle_breakdown it was returned, the tables grid_factors, _grid_factors_lc,
   pollutant_ratios, lifecycle_emissions and fuel_cycle_factors and the scalar
   constants of the calculator are those of its construction. *)
C13_TablesUnchanged ==
    /\ calculator.grid_factors = grid_factors
    /\ calculator._grid_factors_lc = EmissionCalculator._grid_factors_lc
    /\ calculator.pollutant_ratios = pollutant_ratios
    /\ calculator.lifecycle_emissions = lifecycle_emissions
    /\ calculator.fuel_cycle_factors = fuel_cycle_factors
    /\ calculator.diesel_factor = diesel_factor
    /\ calculator.diesel_density = diesel_density
    /\ calculator.gallon_to_liter = gallon_to_liter

(* the caller has zeroed total_manufacturing in the lifecycle_breakdown of a
   diesel result; the table of the calculator still has 6600 *)
C13_Witness ==
    /\ op = "caller_mutation"
    /\ args.vehicle = "diesel"
    /\ calculator.lifecycle_emissions.diesel.total_manufacturing = IntR(6600)
    /\ "total_operation" \notin DOMAIN calculator.lifecycle_emissions.diesel

(* C14: the result of a call is a function of its arguments alone.  Whatever
   calls ran before it on the shared calculator, whatever calls of the other
   threads overlap it and whatever the threads did to the results they were
   returned, a thread is returned the outcome that the same call has on a
   calculator just constructed. *)
C14_ResultOfArgumentsAlone ==
    \A t \in Threads :
        threads[t].pc = "returned" =>
            threads[t].result = Call(EmissionCalculator, threads[t].call.op, threads[t].call.args)

(* thread 1 was returned 63662.08 kg for 15 years of 12000 miles at 30 mpg while
   the call of thread 2, calculate_diesel_emissions with 6000 miles, has run
   its body and not yet returned *)
C14_Witness ==
    /\ threads[1].pc = "returned"
    /\ threads[1].call.op = "calculate_diesel_emissions"
    /\ threads[1].call.args.annual_mileage = IntR(12000)
    /\ IsReturn(threads[1].result)
    /\ threads[2].pc = "running"
    /\ threads[2].call.op = "calculate_diesel_emissions"
    /\ threads[2].call.args.annual_mileage = IntR(6000)

(* the arguments of calculate_diesel_emissions or calculate_ev_emissions with a
   positive mileage, efficiency and number of years *)
PositiveArguments ==
    /\ op \in {"calculate_diesel_emissions", "calculate_ev_emissions"}
    /\ Positive(args.annual_mileage)
    /\ Positive(IF op = "calculate_diesel_emissions" THEN args.mpg ELSE args.kwh_per_100_miles)
    /\ args.years > 0

LessPerYearAndLifetime(smaller, larger) ==
    /\ IsReturn(smaller) /\ IsReturn(larger)
    /\ RLt(smaller.value.co2_annual, larger.value.co2_annual)
    /\ RLt(smaller.value.co2_lifetime, larger.value.co2_lifetime)
    /\ RLt(smaller.value.total_lifecycle, larger.value.total_lifecycle)

LessLifetime(smaller, larger) ==
    /\ IsReturn(smaller) /\ IsReturn(larger)
    /\ RLt(smaller.value.co2_lifetime, larger.value.co2_lifetime)
    /\ RLt(smaller.value.total_lifecycle, larger.value.total_lifecycle)

(* C15: with a positive mileage, efficiency and number of years, and a region, an
   unknown name or a non-negative number as grid mix, calculate_diesel_emissions
   and calculate_ev_emissions return a co2_annual, co2_lifetime and
   total_lifecycle that are strictly smaller than those of the same call with a
   larger mileage, and a co2_lifetime and total_lifecycle strictly smaller than
   those of the same call with more years. *)
C15_StrictlyIncreasing ==
    PositiveArguments =>
        /\ \A annual_mileage \in Mileages :
                RLt(args.annual_mileage, annual_mileage) =>
                    LessPerYearAndLifetime(ret,
                        Call(calculator, op, [args EXCEPT !.annual_mileage = annual_mileage]))
        /\ \A years \in Years :
                args.years < years =>
                    LessLifetime(ret, Call(calculator, op, [args EXCEPT !.years = years]))

(* 6000 miles in one year at 34 kWh per 100 miles on a grid of factor 0.0: 40.8 kg
   from the grid infrastructure alone, less than with 12000 miles or 15 years *)
C15_Witness ==
    /\ PositiveArguments
    /\ op = "calculate_ev_emissions"
    /\ args.grid_mix = Float(IntR(0))
    /\ args.annual_mileage = IntR(6000)
    /\ args.kwh_per_100_miles = IntR(34)
    /\ args.years = 1
    /\ IsReturn(ret)
    /\ ret.value.co2_lifetime = R(204, 5)

(* the call leaves fuel_type, engine_size_l, emission_standard and turbo to
   their defaults *)
OptionalArgumentsOmitted ==
    /\ op = "calculate_diesel_emissions_full"
    /\ args.fuel_type = DieselDefaults.fuel_type
    /\ args.engine_size_l = DieselDefaults.engine_size_l
    /\ args.emission_standard = DieselDefaults.emission_standard
    /\ args.turbo = DieselDefaults.turbo

SameFuelAndEmissions(full, simple) ==
    /\ IsReturn(simple)
    /\ \A key \in {"fuel_annual_gallons", "fuel_annual_liters", "co2_annual",
                    "co2_annual_direct", "co2_annual_upstream", "co2_lifetime",
                    "total_lifecycle", "nox_annual", "pm25_annual", "so2_annual"} :
            REq(full.value[key], simple.value[key])

(* C16: with fuel_type, engine_size_l, emission_standard and turbo omitted,
   calculate_diesel_emissions_full applies the consumption modifier 1.0 and
   returns the fuel volume and the emission figures of
   calculate_diesel_emissions for the same annual_mileage, mpg and years. *)
C16_DefaultsNeutral ==
    (OptionalArgumentsOmitted /\ IsReturn(ret)) =>
        /\ ret.value.assumptions.consumption_modifier = IntR(1)
        /\ SameFuelAndEmissions(ret,
                calculate_diesel_emissions(calculator, args.annual_mileage, args.mpg, args.years))

LessManufacturing(smaller, larger) ==
    /\ IsReturn(larger)
    /\ RLt(smaller.value.manufacturing_emissions, larger.value.manufacturing_emissions)
    /\ RLt(smaller.value.total_lifecycle, larger.value.total_lifecycle)

(* C17: calculate_ev_emissions_full scales the manufacturing footprint by
   battery_kwh: the same call with a larger battery returns a larger
   manufacturing_emissions and a larger total_lifecycle. *)
C17_BatteryScalesManufacturing ==
    (op = "calculate_ev_emissions_full" /\ IsReturn(ret)) =>
        \A battery_kwh \in BatterySizes :
            RLt(args.battery_kwh, battery_kwh) =>
                LessManufacturing(ret,
                    Call(calculator, op, [args EXCEPT !.battery_kwh = battery_kwh]))

(* C18: calculate_lifecycle_analysis returns as ev_results and diesel_results what
   calculate_ev_emissions and calculate_diesel_emissions return for its
   annual_mileage and years, annual_savings = diesel co2_annual - EV co2_annual,
   also when that is negative, manufacturing_difference = EV
   manufacturing_emissions - diesel manufacturing_emissions, and
   total_savings_15_years = annual_savings * years for the years passed. *)
C18_LifecycleSavings ==
    (op = "calculate_lifecycle_analysis" /\ IsReturn(ret)) =>
        /\ Return(ret.value.ev_results) =
                calculate_ev_emissions(EmissionCalculator, args.annual_mileage,
                    args.ev_efficiency, args.grid_mix_factor, args.years)
        /\ Return(ret.value.diesel_results) =
                calculate_diesel_emissions(EmissionCalculator, args.annual_mileage,
                    args.diesel_efficiency, args.years)
        /\ REq(ret.value.annual_savings,
               RSub(ret.value.diesel_results.co2_annual, ret.value.ev_results.co2_annual))
        /\ REq(ret.value.manufacturing_difference,
               RSub(ret.value.ev_results.manufacturing_emissions,
                    ret.value.diesel_results.manufacturing_emissions))
        /\ REq(ret.value.total_savings_15_years,
               RMul(ret.value.annual_savings, IntR(args.years)))

(* one year of 12000 miles, 34 kWh per 100 miles on the grid of Polen against
   80 mpg: the EV emits more, annual_savings is negative and the total savings
   are those of the one year *)
C18_Witness ==
    /\ op = "calculate_lifecycle_analysis"
    /\ IsReturn(ret)
    /\ args.annual_mileage = IntR(12000)
    /\ args.diesel_efficiency = IntR(80)
    /\ args.grid_mix_factor = Str(Polen)
    /\ args.years = 1
    /\ RLt(ret.value.annual_savings, IntR(0))
    /\ ret.value.manufacturing_difference = IntR(1450)
    /\ REq(ret.value.total_savings_15_years, ret.value.annual_savings)

(* the fifth entry is the sum of the first four, and the third is the lifetime
   operation of the results *)
TotalIsSumOfPhases(emissions, results, years) ==
    /\ Len(emissions) = 5
    /\ REq(emissions[5],
           RAdd(RAdd(RAdd(emissions[1], emissions[2]), emissions[3]), emissions[4]))
    /\ emissions[3] = results.co2_lifetime
    /\ REq(emissions[3], RMul(results.co2_annual, IntR(years)))

(* C19: in the lifecycle_comparison that calculate_lifecycle_analysis returns, the
   fifth entry of ev_emissions and of diesel_emissions is the sum of the first
   four (raw material extraction, manufacturing, operation, end of life), and
   the operation entry is co2_lifetime = co2_annual * years for the years
   passed. *)
C19_TotalIsSumOfPhases ==
    (op = "calculate_lifecycle_analysis" /\ IsReturn(ret)) =>
        /\ TotalIsSumOfPhases(ret.value.lifecycle_comparison.ev_emissions,
                              ret.value.ev_results, args.years)
        /\ TotalIsSumOfPhases(ret.value.lifecycle_comparison.diesel_emissions,
                              ret.value.diesel_results, args.years)

(* 12000 miles, 34 kWh per 100 miles in Deutschland 2025 against 30 mpg over 2
   years: EV 2300 + 6350 + 3299.088 - 600 = 11349.088 and
   diesel 1400 + 5450 + 12204.16184 - 250 = 18804.16184 *)
C19_Witness ==
    /\ op = "calculate_lifecycle_analysis"
    /\ IsReturn(ret)
    /\ args.years = 2
    /\ ret.value.lifecycle_comparison.ev_emissions =
            <<IntR(2300), IntR(6350), R(412386, 125), IntR(-600), R(1418636, 125)>>
    /\ ret.value.lifecycle_comparison.diesel_emissions[2] = IntR(5450)
    /\ REq(ret.value.lifecycle_comparison.diesel_emissions[5], R(1880416184, 100000))

(* the mpg that the page passed to the calculator for a diesel vehicle *)
MpgPassed ==
    IF op = "quick_calculation" THEN args.call.args.mpg
    ELSE args.call.args.diesel_efficiency

(* the litres of diesel a year that the calculator computed *)
LitresComputed ==
    IF op = "quick_calculation" THEN ret.value.quick_emissions.fuel_annual_liters
    ELSE ret.value.diesel_results.fuel_annual_liters

(* x is y to within one part in a thousand *)
Corresponds(x, y) ==
    /\ RLe(RMul(y, R(999, 1000)), x)
    /\ RLe(x, RMul(y, R(1001, 1000)))

(* C20: in the quick calculation and in the lifecycle analysis of the start page,
   a diesel efficiency entered as X L/100km reaches the calculator as the mpg
   235.2 / X, for "Custom" as for a model of the list, and the fuel of a year
   that the calculator computes corresponds to annual_km / 100 * X litres. *)
C20_LitresPer100KmReachAsMpg ==
    (/\ op \in {"quick_calculation", "full_lifecycle_analysis"}
     /\ args.entered.vehicle_type = "Dieselfahrzeug"
     /\ IsReturn(ret)) =>
        /\ REq(MpgPassed, RDiv(R(2352, 10), args.entered.entered))
        /\ Corresponds(LitresComputed,
                RMul(RDiv(args.entered.annual_km, IntR(100)), args.entered.entered))

(* the product of 1.05 for an engine above 2.5 litres, 0.97 for a turbo and 1.02
   for Euro 5 *)
ConsumptionModifier(a) ==
    RMul(RMul(IF a.engine_size_l # None /\ RLt(R(25, 10), a.engine_size_l)
              THEN R(105, 100) ELSE IntR(1),
              IF a.turbo THEN R(97, 100) ELSE IntR(1)),
         IF a.emission_standard = "Euro 5" THEN R(102, 100) ELSE IntR(1))

(* C21: calculate_diesel_emissions_full returns fuel_annual_gallons =
   (annual_mileage / mpg) * m, with m the product of 1.05 if engine_size_l > 2.5,
   0.97 if turbo and 1.02 if emission_standard is "Euro 5", and echoes that m as
   assumptions.consumption_modifier; an engine of exactly 2.5 litres, Euro 6 and
   EPA Tier 3 leave m unchanged. *)
C21_ConsumptionModifier ==
    (op = "calculate_diesel_emissions_full" /\ IsReturn(ret)) =>
        /\ REq(ret.value.assumptions.consumption_modifier, ConsumptionModifier(args))
        /\ REq(ret.value.fuel_annual_gallons,
               RMul(RDiv(args.annual_mileage, args.mpg), ConsumptionModifier(args)))
        /\ (args.engine_size_l = R(25, 10) /\ ~args.turbo
                /\ args.emission_standard \in {"Euro 6", "EPA Tier 3"}) =>
                    ret.value.assumptions.consumption_modifier = IntR(1)

(* a 2.5 litre engine without turbo under EPA Tier 3: 12000 miles at 30 mpg are
   400 gallons, the modifier is 1 *)
C21_Witness ==
    /\ op = "calculate_diesel_emissions_full"
    /\ IsReturn(ret)
    /\ args.annual_mileage = IntR(12000)
    /\ args.mpg = IntR(30)
    /\ args.engine_size_l = R(25, 10)
    /\ ~args.turbo
    /\ args.emission_standard = "EPA Tier 3"
    /\ ret.value.fuel_annual_gallons = IntR(400)
    /\ ret.value.assumptions.consumption_modifier = IntR(1)

(* 1.00 for Regular Diesel, 0.90 for Bio-Diesel (B20), 0.40 for Renewable Diesel,
   1.00 for any other fuel type *)
FuelPathwayMultiplier(fuel_type) ==
    IF fuel_type = "Bio-Diesel (B20)" THEN R(90, 100)
    ELSE IF fuel_type = "Renewable Diesel" THEN R(40, 100)
    ELSE IntR(1)

SameCallWithRegularDiesel ==
    Call(EmissionCalculator, op, [args EXCEPT !.fuel_type = "Regular Diesel"])

(* C22: in calculate_diesel_emissions_full the fuel-pathway multiplier scales the
   tailpipe and the upstream factor per litre alike: co2_annual_direct is to
   co2_annual_upstream as 2.68 to 1.35 for every fuel type, and co2_annual is
   the multiplier times the co2_annual of the same call with Regular Diesel. *)
C22_FuelPathwayMultiplier ==
    (op = "calculate_diesel_emissions_full" /\ IsReturn(ret)) =>
        /\ REq(ret.value.assumptions.fuel_type_multiplier,
               FuelPathwayMultiplier(args.fuel_type))
        /\ REq(ret.value.assumptions.tailpipe_per_litre,
               RMul(R(268, 100), FuelPathwayMultiplier(args.fuel_type)))
        /\ REq(ret.value.assumptions.upstream_per_litre,
               RMul(R(135, 100), FuelPathwayMultiplier(args.fuel_type)))
        /\ REq(RMul(ret.value.co2_annual_direct, R(135, 100)),
               RMul(ret.value.co2_annual_upstream, R(268, 100)))
        /\ REq(ret.value.co2_annual,
               RMul(FuelPathwayMultiplier(args.fuel_type),
                    SameCallWithRegularDiesel.value.co2_annual))

(* Renewable Diesel, 12000 miles at 30 mpg, 2 litre engine without turbo under
   Euro 6: 0.4 * 6102.08092 = 2440.832368 kg a year *)
C22_Witness ==
    /\ op = "calculate_diesel_emissions_full"
    /\ IsReturn(ret)
    /\ args.fuel_type = "Renewable Diesel"
    /\ args.annual_mileage = IntR(12000)
    /\ args.mpg = IntR(30)
    /\ args.engine_size_l = IntR(2)
    /\ ~args.turbo
    /\ args.emission_standard = "Euro 6"
    /\ REq(ret.value.co2_annual, R(152552023, 62500))

(* p: 1.05 for Mostly City, 0.95 for Mostly Highway, 1.00 otherwise *)
PatternMultiplier(driving_pattern) ==
    IF driving_pattern = "Mostly City" THEN R(105, 100)
    ELSE IF driving_pattern = "Mostly Highway" THEN R(95, 100)
    ELSE IntR(1)

(* c: 1.15 in cold weather *)
ColdMultiplier(cold_weather) == IF cold_weather THEN R(115, 100) ELSE IntR(1)

(* 1 + l: l is 0.10 for Public Fast Charging and 0.08 otherwise *)
ChargingMultiplier(charging_type) ==
    IF charging_type = "Public Fast Charging" THEN R(110, 100) ELSE R(108, 100)

EvOptionalArgumentsAtDefaults ==
    /\ args.battery_kwh = EvDefaults.battery_kwh
    /\ args.driving_pattern = EvDefaults.driving_pattern
    /\ args.charging_type = EvDefaults.charging_type
    /\ args.cold_weather = EvDefaults.cold_weather

(* kwh and co2 of the full result are 1.08 times those of the basic one *)
TimesChargingLoss(full, basic) ==
    /\ IsReturn(basic)
    /\ REq(full.value.electricity_annual_kwh,
           RMul(R(108, 100), basic.value.electricity_annual_kwh))
    /\ REq(full.value.co2_annual, RMul(R(108, 100), basic.value.co2_annual))

(* C23: calculate_ev_emissions_full returns electricity_annual_kwh =
   (annual_mileage / 100) * kwh_per_100_miles * p * c * (1 + l) with p the
   driving-pattern factor, c the cold-weather factor and l the charging loss;
   with the optional parameters at their defaults its electricity_annual_kwh
   and co2_annual are 1.08 times those of calculate_ev_emissions for the same
   mileage, efficiency, grid and years. *)
C23_EvFullEnergy ==
    (op = "calculate_ev_emissions_full" /\ IsReturn(ret)) =>
        /\ REq(ret.value.assumptions.driving_pattern_factor,
               PatternMultiplier(args.driving_pattern))
        /\ REq(ret.value.assumptions.cold_weather_factor, ColdMultiplier(args.cold_weather))
        /\ REq(RAdd(IntR(1), ret.value.assumptions.charging_loss_fraction),
               ChargingMultiplier(args.charging_type))
        /\ REq(ret.value.electricity_annual_kwh,
               RMul(RMul(RMul(RMul(RDiv(args.annual_mileage, IntR(100)),
                                   args.kwh_per_100_miles),
                              PatternMultiplier(args.driving_pattern)),
                         ColdMultiplier(args.cold_weather)),
                    ChargingMultiplier(args.charging_type)))
        /\ EvOptionalArgumentsAtDefaults =>
                TimesChargingLoss(ret,
                    calculate_ev_emissions(EmissionCalculator, args.annual_mileage,
                        args.kwh_per_100_miles, args.grid_mix, args.years))

(* city driving in cold weather on public fast charging: 12000 miles at 34 kWh
   per 100 miles draw 4080 * 1.05 * 1.15 * 1.10 = 5419.26 kWh a year *)
C23_Witness ==
    /\ op = "calculate_ev_emissions_full"
    /\ IsReturn(ret)
    /\ args.annual_mileage = IntR(12000)
    /\ args.kwh_per_100_miles = IntR(34)
    /\ args.driving_pattern = "Mostly City"
    /\ args.cold_weather
    /\ args.charging_type = "Public Fast Charging"
    /\ ret.value.electricity_annual_kwh = R(541926, 100)

(* the pollutant masses of the result e are nox, pm25 and so2 times its
   co2_annual *)
PollutantsAre(e, nox, pm25, so2) ==
    /\ REq(e.nox_annual, RMul(e.co2_annual, nox))
    /\ REq(e.pm25_annual, RMul(e.co2_annual, pm25))
    /\ REq(e.so2_annual, RMul(e.co2_annual, so2))

DieselPollutants(e) == PollutantsAre(e, R(15, 1000), R(8, 10000), R(3, 10000))

EvPollutants(e) == PollutantsAre(e, R(2, 1000), R(1, 10000), R(1, 1000))

(* C24: in every emission result nox_annual, pm25_annual and so2_annual are
   fixed multiples of that result's co2_annual: 0.015, 0.0008 and 0.0003 for the
   diesel functions and 0.002, 0.0001 and 0.001 for the EV functions, in the
   basic and the full variants alike (and in the two results nested in a
   lifecycle analysis). *)
C24_PollutantRatios ==
    /\ (/\ op \in {"calculate_diesel_emissions", "calculate_diesel_emissions_full"}
        /\ IsReturn(ret)) => DieselPollutants(ret.value)
    /\ (/\ op \in {"calculate_ev_emissions", "calculate_ev_emissions_full"}
        /\ IsReturn(ret)) => EvPollutants(ret.value)
    /\ (op = "calculate_lifecycle_analysis" /\ IsReturn(ret)) =>
            /\ DieselPollutants(ret.value.diesel_results)
            /\ EvPollutants(ret.value.ev_results)

C24_Witness ==
    /\ op = "calculate_ev_emissions_full"
    /\ IsReturn(ret)
    /\ Positive(ret.value.co2_annual)
    /\ REq(ret.value.nox_annual, RMul(ret.value.co2_annual, R(2, 1000)))
    /\ ~REq(ret.value.nox_annual, RMul(ret.value.co2_annual, R(15, 1000)))
    /\ REq(ret.value.so2_annual, RMul(ret.value.co2_annual, R(1, 1000)))

PositiveLifecycleArguments ==
    /\ op = "calculate_lifecycle_analysis"
    /\ Positive(args.annual_mileage)
    /\ Positive(args.ev_efficiency)
    /\ Positive(args.diesel_efficiency)
    /\ args.years > 0

(* the payback is reached strictly before the given number of years *)
PaybackBefore(carbon_payback_years, years) ==
    IsFinite(carbon_payback_years) /\ RLt(carbon_payback_years, IntR(years))

(* the same analysis over another number of years *)
AnalysisOver(years) ==
    calculate_lifecycle_analysis(calculator, args.annual_mileage, args.ev_efficiency,
        args.diesel_efficiency, args.grid_mix_factor, years)

(* C25: for positive mileage, efficiencies and years the EV's total_lifecycle
   is strictly lower than the diesel's total_lifecycle exactly when
   carbon_payback_years is strictly less than years; carbon_payback_years is
   the same for every positive number of years, so it is not capped by years. *)
C25_PaybackConsistent ==
    PositiveLifecycleArguments =>
        /\ IsReturn(ret)
        /\ RLt(ret.value.ev_results.total_lifecycle,
               ret.value.diesel_results.total_lifecycle)
                <=> PaybackBefore(ret.value.carbon_payback_years, args.years)
        /\ \A y \in Years \ {0} :
                /\ IsReturn(AnalysisOver(y))
                /\ AnalysisOver(y).value.carbon_payback_years
                        = ret.value.carbon_payback_years

(* a payback that lies beyond the years of the analysis: the EV's total is
   not the lower one *)
C25_Witness ==
    /\ PositiveLifecycleArguments
    /\ IsReturn(ret)
    /\ args.years = MaxYears
    /\ IsFinite(ret.value.carbon_payback_years)
    /\ RGt(ret.value.carbon_payback_years, IntR(args.years))
    /\ RLt(ret.value.carbon_payback_years, IntR(DefaultYears))
    /\ RGt(ret.value.ev_results.total_lifecycle,
           ret.value.diesel_results.total_lifecycle)
    /\ RLt(AnalysisOver(DefaultYears).value.ev_results.total_lifecycle,
           AnalysisOver(DefaultYears).value.diesel_results.total_lifecycle)

(* calculate_ev_emissions for the region g with the mileage, efficiency and
   years of the projection call *)
EvEmissionsFor(g) ==
    calculate_ev_emissions(calculator, args.annual_mileage, args.ev_efficiency,
                           Str(g), args.years)

(* first is kwh * grid_factor of the result ev, that is its co2_annual_direct
   without the 1.05 transmission factor *)
IsDirectWithoutLosses(first, ev) ==
    /\ IsReturn(ev)
    /\ REq(first, RMul(ev.value.electricity_annual_kwh, ev.value.grid_factor))
    /\ REq(RMul(first, R(105, 100)), ev.value.co2_annual_direct)

(* C26: for every region R, mileage and efficiency the first-year value of
   get_grid_decarbonization_projection for R is electricity_annual_kwh *
   grid_factor of calculate_ev_emissions for R, that is co2_annual_direct
   divided by the 1.05 transmission factor; for positive inputs it is strictly
   below the co2_annual that calculate_ev_emissions reports. *)
C26_ProjectionOmitsLosses ==
    op = "get_grid_decarbonization_projection" =>
        /\ IsReturn(ret)
        /\ \A g \in DOMAIN grid_factors :
            /\ IsDirectWithoutLosses(ret.value[g][1], EvEmissionsFor(g))
            /\ (Positive(args.annual_mileage) /\ Positive(args.ev_efficiency)) =>
                    RLt(ret.value[g][1], EvEmissionsFor(g).value.co2_annual)

C26_Witness ==
    /\ op = "get_grid_decarbonization_projection"
    /\ args.annual_mileage = IntR(12000)
    /\ args.ev_efficiency = IntR(34)
    /\ args.years = MaxYears
    /\ IsReturn(ret)
    /\ ret.value[Deutschland2025][1] = R(37332, 25)
    /\ REq(EvEmissionsFor(Deutschland2025).value.co2_annual_direct, R(391986, 250))
    /\ REq(EvEmissionsFor(Deutschland2025).value.co2_annual, R(206193, 125))

(* the record holds a result that a function of the calculator returned: one
   of the four emission functions, or what the vehicle input page computed *)
IsCalculatorResult(results) ==
    \/ \E r \in CalculatorResults(calculator) : results = r.calculation_data
    \/ \E w \in VehicleInputs : Return(results) = vehicle_input_results(calculator, w)

SavedCalculatorResultsOnly ==
    \A i \in 1..Len(data_handler.calculations_history) :
        IsCalculatorResult(data_handler.calculations_history[i].results)

(* C27: after any sequence of DataHandler.save_calculation calls whose
   calculation_data are results returned by the calculator, get_calculations_df
   returns a table with exactly one row per saved record without raising, and
   export_to_csv and get_summary_statistics succeed as well: every key the
   handler reads (co2_annual, co2_lifetime, total_lifetime) is in every
   calculator result. *)
C27_HistoryTable ==
    SavedCalculatorResultsOnly =>
        /\ op = "get_calculations_df" =>
                /\ IsReturn(ret)
                /\ Len(ret.value.rows) = Len(data_handler.calculations_history)
        /\ op \in {"export_to_csv", "get_summary_statistics"} => IsReturn(ret)
        /\ \A i \in 1..Len(data_handler.calculations_history) :
                ResultKeysRead \subseteq DOMAIN data_handler.calculations_history[i].results

(* C28: on a data directory without the data files, LocalDataManager() and then
   initialize_sample_data() leave the cars file holding the six sample car
   models and the grid file holding the two sample grid entries, so that
   get_german_cars('electric') returns the three sample electric cars. *)
C28_SampleDataWritten ==
    (op = "session_start" /\ args.existing = {}) =>
        /\ json_load(files.cars_file) = Return(List(electric_cars \o diesel_cars))
        /\ json_load(files.grid_file) = Return(List(grid_data))
        /\ get_german_cars(files, Str(<<"e", "l", "e", "c", "t", "r", "i", "c">>))
                = Return(List(electric_cars))

(* every session has run its save_calculation to the end *)
AllSaved == \A s \in Sessions : sessions[s].pc = "saved"

(* C29: when the sessions run save_calculation at the same time on one history
   file, then under every interleaving of their read, append and write-back
   steps the entries of all of them are in the file afterwards and the file is
   still a valid JSON list. *)
C29_NoSaveLost ==
    AllSaved =>
        /\ IsReturn(json_load(files.history_file))
        /\ json_load(files.history_file).value.type = "list"
        /\ Len(HistoryEntries(files)) = NumSessions
        /\ \A s \in Sessions :
                \E i \in 1..Len(HistoryEntries(files)) :
                    HistoryEntries(files)[i] = sessions[s].entry

(* the entry that the save_calculation call of args has made *)
EntryOf(a) ==
    save_calculation_entry(a.call.session_id, a.call.vehicle_type, a.call.brand,
        a.call.model, a.call.annual_km, a.call.efficiency, a.call.grid_region,
        a.call.calculation_results, a.now).value

(* a save_calculation call adds its entry behind the entries of the file and
   changes none of them *)
SaveAddsItsEntry ==
    op' = "LocalDataManager.save_calculation" =>
        /\ IsReturn(ret')
        /\ IsReturn(json_load(files'.history_file))
        /\ HistoryEntries(files') = Append(HistoryEntries(files), EntryOf(args'))

(* the entries of the file that the query asks for *)
Asked(session_id) ==
    SelectSeq(HistoryEntries(files),
              LAMBDA h : session_id = None \/ h.val.user_session = session_id)

(* how often the entry e is in the list xs *)
Count(xs, e) == Cardinality({i \in 1..Len(xs) : xs[i] = e})

(* the answer of get_calculation_history: at most limit entries, all of them
   entries of the file for the session asked for, the newer ones first, and all
   of them when the limit suffices *)
HistoryAnswer ==
    op = "get_calculation_history" =>
        /\ IsReturn(ret)
        /\ LET asked == Asked(args.session_id)
               answer == ret.value.val
           IN  /\ Len(answer) <= args.limit
               /\ \A i \in 1..Len(answer) :
                    /\ Count(answer, answer[i]) <= Count(asked, answer[i])
                    /\ args.session_id # None =>
                            answer[i].val.user_session = args.session_id
                    /\ \A j \in (i + 1)..Len(answer) :
                            ~StrLt(answer[i].val.created_at.val,
                                   answer[j].val.created_at.val)
               /\ \A i \in 1..Len(asked) :
                    \/ Len(answer) = args.limit
                    \/ Count(answer, asked[i]) = Count(asked, asked[i])
               /\ args.limit >= Len(asked) => Len(answer) = Len(asked)

(* C30: after any sequence of save_calculation calls made one after the other
   from an empty history, the history file holds exactly one entry per call,
   and get_calculation_history(session_id, limit) returns at most limit
   entries, all with user_session equal to session_id when a session_id is
   given and entries of every session when it is not, ordered newest first by
   created_at; with a sufficient limit every entry saved for that session is
   returned. *)
C30_HistoryKeptAndAnswered == [][SaveAddsItsEntry]_vars /\ []HistoryAnswer

(* two entries of one session in the file, the older one first, and a query
   for that session with limit 1 that is answered with the newer one *)
C30_Witness ==
    /\ op = "get_calculation_history"
    /\ args.session_id = Str(SessionIds[1])
    /\ args.limit = 1
    /\ Len(HistoryEntries(files)) = MaxEntries
    /\ HistoryEntries(files)[1].val.user_session = Str(SessionIds[1])
    /\ HistoryEntries(files)[MaxEntries].val.user_session = Str(SessionIds[1])
    /\ HistoryEntries(files)[1].val.created_at = Str(isoformat(0))
    /\ HistoryEntries(files)[MaxEntries].val.created_at = Str(isoformat(MaxTick))
    /\ IsReturn(ret)
    /\ ret.value.val = <<HistoryEntries(files)[MaxEntries]>>

====
